---- MODULE Spec2Model ----
(***************************************************************************)
(* State-machine model of the WMA Pro decoder core in                      *)
(* media/libstagefright/codecs/wma/wmapro_dec/wmaprodec.c:                 *)
(* decode_init, decode_packet, save_bits, decode_frame, decode_tilehdr,    *)
(* decode_subframe and flush.                                              *)
(*                                                                         *)
(* The compressed bits are not stored: every read of the bit reader is a   *)
(* nondeterministic choice of the value read, and only the readers' bit    *)
(* positions are state.  The one place where the code reads the same bits  *)
(* twice (the frame length peeked in decode_packet and read again by       *)
(* decode_frame) is carried in the variable res_len.                       *)
(***************************************************************************)
EXTENDS Integers, Sequences, FiniteSets, TLC

(************************* program constants *******************************)
WMAPRO_MAX_CHANNELS == 8
MAX_SUBFRAMES == 32
MAX_BANDS == 29
MAX_FRAMESIZE == 32768
WMAPRO_ERR_InvalidData == 0 - 1
WMAPRO_BLOCK_MIN_BITS == 6
WMAPRO_BLOCK_MAX_BITS == 12
WMAPRO_BLOCK_MAX_SIZE == 4096

(****************************** bounds *************************************)
\* largest channel count of the streams of the packet-level specification
MaxChannels == 2
\* largest channel count of the streams of the tile-header specification
MaxTileChannels == 2
\* furthest bit position of the reservoir reader that is explored
MaxBits == 64
\* bits taken by the variable-length coded scale factors of one channel and
\* by the coded coefficients of one channel in the subframes explored
SfBits == 3
CoefBits == 4
\* a reservoir holds at most MaxResPackets packets' worth of bits
MaxResPackets == 3
\* calls of decode_packet made on one decoder
MaxCalls == 4
\* largest channel count of the streams of the frame specification
MaxFrameChannels == 3
\* largest channel count of the streams of the downmix specification
MaxDownmixChannels == 6

(****************************** helpers ************************************)
RECURSIVE av_log2(_)
av_log2(v) == IF v < 2 THEN 0 ELSE 1 + av_log2(v \div 2)

Pow2(n) == 2 ^ n

\* x >> n and  x & (2^n - 1)  for non-negative x
Shr(x, n) == x \div Pow2(n)
LowBits(x, n) == x % Pow2(n)
\* (x >> lo) & (2^n - 1): an n-bit field of x starting at bit lo
Field(x, lo, n) == LowBits(Shr(x, lo), n)

(******************************* state *************************************)
VARIABLES
    cfg,                    \* fields of WMAProDecodeCtx set once by decode_init
    pc,                     \* position of the running API call ("idle": none)
    path,                   \* branch of decode_packet taken by the running call
    packet_done, packet_loss, packet_sequence_number,
    packet_offset, next_packet_start,
    num_saved_bits, frame_offset, buf_bit_size,
    pgb,                    \* get_bits_count(&s->pgb)
    gb,                     \* get_bits_count(&s->gb)
    pb,                     \* put_bits_count(&s->pb)
    res_len,                \* value of the length field at the reservoir start
                            \* when the code has already seen it, else -1
    skip_frame, samples, samples_end, parsed_all_subframes,
    channel,                \* s->channel[0 .. num_channels-1]
    tile,                   \* locals of decode_tilehdr
    frame,                  \* locals of decode_frame and what it returned
    call,                   \* arguments and observations of the running call
    ret, data_size,         \* results of the last decode_packet call
    num_calls               \* calls of decode_packet made so far

vars == <<cfg, pc, path, packet_done, packet_loss, packet_sequence_number,
          packet_offset, next_packet_start, num_saved_bits, frame_offset,
          buf_bit_size, pgb, gb, pb, res_len, skip_frame, samples,
          samples_end, parsed_all_subframes, channel, tile, frame, call,
          ret, data_size, num_calls>>

(***************************** decode_init *********************************)
\* wmapro_get_frame_len_bits without the branch of lines 1598-1599: rates
\* above 48 kHz all get 13 bits
wmapro_get_frame_len_bits_No96k(sample_rate, version, decode_flags) ==
    LET base == IF sample_rate <= 16000 THEN 9
                ELSE IF sample_rate <= 22050
                        \/ (sample_rate <= 32000 /\ version = 1) THEN 10
                ELSE IF sample_rate <= 48000 THEN 11
                ELSE 13
        tmp == 2 * Field(decode_flags, 1, 2)
    IN IF version # 3 THEN base
       ELSE IF tmp = 2 THEN base + 1
       ELSE IF tmp = 4 THEN base - 1
       ELSE IF tmp = 6 THEN base - 2
       ELSE base

\* lines 1584-1615
wmapro_get_frame_len_bits(sample_rate, version, decode_flags) ==
    LET base == IF sample_rate <= 16000 THEN 9
                ELSE IF sample_rate <= 22050
                        \/ (sample_rate <= 32000 /\ version = 1) THEN 10
                ELSE IF sample_rate <= 48000 THEN 11
                ELSE IF sample_rate <= 96000 THEN 12
                ELSE 13
        tmp == 2 * Field(decode_flags, 1, 2)
    IN IF version # 3 THEN base
       ELSE IF tmp = 2 THEN base + 1
       ELSE IF tmp = 4 THEN base - 1
       ELSE IF tmp = 6 THEN base - 2
       ELSE base

\* lines 1693-1702: the position of the LFE channel among the channels of
\* channel_mask, -1 when the mask has no LFE bit
lfe_channel(channel_mask) ==
    IF Field(channel_mask, 3, 1) = 0 THEN 0 - 1
    ELSE Field(channel_mask, 0, 1) + Field(channel_mask, 1, 1)
         + Field(channel_mask, 2, 1) + Field(channel_mask, 3, 1) - 1

\* The configuration decode_init derives; ok = FALSE where it returns an error.
decode_init(sample_rate, decode_flags, channels, block_align, bits_per_sample, channel_mask) ==
    LET spf == Pow2(wmapro_get_frame_len_bits(sample_rate, 3, decode_flags))
        log2_max_num_subframes == Field(decode_flags, 3, 3)
        max_num_subframes == Pow2(log2_max_num_subframes)
    IN [ ok |-> ~(max_num_subframes > MAX_SUBFRAMES)
                /\ ~(channels < 0) /\ ~(channels > WMAPRO_MAX_CHANNELS),
         sample_rate |-> sample_rate,
         decode_flags |-> decode_flags,
         bits_per_sample |-> bits_per_sample,
         block_align |-> block_align,
         log2_frame_size |-> av_log2(block_align) + 4,
         len_prefix |-> 64 * Field(decode_flags, 6, 1),
         samples_per_frame |-> spf,
         max_num_subframes |-> max_num_subframes,
         max_subframe_len_bit |->
             IF max_num_subframes = 16 \/ max_num_subframes = 4 THEN 1 ELSE 0,
         subframe_len_bits |-> av_log2(log2_max_num_subframes) + 1,
         min_samples_per_subframe |-> spf \div max_num_subframes,
         dynamic_range_compression |-> 128 * Field(decode_flags, 7, 1),
         num_channels |-> channels,
         lfe_channel |-> lfe_channel(channel_mask) ]

Chans == 0 .. (cfg.num_channels - 1)

(***************************** band tables *********************************)
\* the upper edges of the critical bands in Hz (wmaprodata.h)
critical_freq ==
    << 100, 200, 300, 400, 510, 630, 770, 920, 1080, 1270, 1480, 1720, 2000,
       2320, 2700, 3150, 3700, 4400, 5300, 6400, 7700, 9500, 12000, 15500,
       20675, 28575, 41375, 63875 >>

\* line 1680: the block sizes samples_per_frame >> i, i < num_possible_block_sizes
num_possible_block_sizes == av_log2(cfg.max_num_subframes) + 1
BlockSizes == 0 .. (num_possible_block_sizes - 1)

\* lines 1750-1756: the loop over critical_freq[x..]; offs[1 .. band] holds
\* sfb_offsets[i][0 .. band - 1]
RECURSIVE SfbLoop(_, _, _)
SfbLoop(x, offs, subframe_len) ==
    IF x < MAX_BANDS - 1 /\ offs[Len(offs)] < subframe_len
    THEN LET offset == 4 * ((((subframe_len * 2 * critical_freq[x + 1])
                               \div cfg.sample_rate) + 2) \div 4)
         IN SfbLoop(x + 1,
                    IF offset > offs[Len(offs)] THEN Append(offs, offset) ELSE offs,
                    subframe_len)
    ELSE offs

\* line 1757: the last offset becomes subframe_len
SfbLast(offs, subframe_len) == [offs EXCEPT ![Len(offs)] = subframe_len]

\* lines 1743-1759: sfb_offsets[i][0 .. num_sfb[i]], as a sequence
sfb_offsets(i) ==
    SfbLast(SfbLoop(0, <<0>>, Shr(cfg.samples_per_frame, i)),
            Shr(cfg.samples_per_frame, i))

\* line 1758
num_sfb(i) == Len(sfb_offsets(i)) - 1

\* entry b of a row of sfb_offsets; the entries the loop did not write are
\* the zeros of the memset of decode_init
SfbOffset(row, b) == IF b + 1 <= Len(row) THEN row[b + 1] ELSE 0

\* lines 1774-1776: the first v with sfb_offsets[x][v + 1] << x >= offset
\* (row is sfb_offsets[x], of MAX_BANDS entries)
RECURSIVE SfSearch(_, _, _, _)
SfSearch(row, x, v, offset) ==
    IF v + 1 < MAX_BANDS /\ SfbOffset(row, v + 1) * Pow2(x) < offset
    THEN SfSearch(row, x, v + 1, offset)
    ELSE v

\* lines 1771-1772: the centre of band b of layout i (row is sfb_offsets[i])
SfCentre(row, i, b) ==
    ((SfbOffset(row, b) + SfbOffset(row, b + 1) - 1) * Pow2(i)) \div 2

\* lines 1767-1779 with the lower edge of the band for the centre of
\* lines 1771-1772
sf_offsets_Lower(i, x, b) ==
    SfSearch(sfb_offsets(x), x, 0, SfbOffset(sfb_offsets(i), b) * Pow2(i))

\* lines 1767-1779: sf_offsets[i][x][b], the band of layout x that holds the
\* centre of band b of layout i
sf_offsets(i, x, b) ==
    SfSearch(sfb_offsets(x), x, 0, SfCentre(sfb_offsets(i), i, b))

\* lines 1795-1800: subwoofer_cutoffs[i]
subwoofer_cutoffs(i) ==
    LET block_size == Shr(cfg.samples_per_frame, i)
        cutoff == (440 * block_size + 3 * (cfg.sample_rate \div 2) - 1)
                      \div cfg.sample_rate
    IN IF cutoff < 4 THEN 4 ELSE IF cutoff > block_size THEN block_size ELSE cutoff

\* a WMAProChannelCtx after the memset of decode_init and lines 1670-1671.
\* tail stands for the samples fixout32[0 .. samples_per_frame/2 - 1], the
\* overlap history the window of the next frame reads: "zero" (all zero),
\* "hist" (the second half of the last frame, copied at line 2989) or
\* "mixed" (overwritten by the window of a first subframe, line 2521).
\* saved_scale_factors[b + 1] stands for the bank saved_scale_factors[b]: what
\* it holds (kind), the block-size index of its band layout (table) and the
\* transmission of the frame it comes from (gen).  The kinds: "zero" (the
\* memset of decode_init), "tx" (factors as a transmission left them), "res"
\* (factors resampled at line 2325), "part" (resampled factors with the
\* differences a failed run-level decode added) and "stale" (written while
\* an earlier frame was decoded).  scale_factors is the bank the pointer
\* channel[c].scale_factors selects (-1: null); max_scale_factor is the kind
\* of the factors the maximum was taken of and scale_factor_step the kind of
\* the transmission that gave the step; sf_gen counts the transmissions of
\* scale factors for the channel in the current frame.
ZeroBank == [kind |-> "zero", table |-> 0, gen |-> 0]
StaleBank == [kind |-> "stale", table |-> 0, gen |-> 0]
InitChannel(c) ==
    [ prev_block_len |-> c.samples_per_frame,
      tail |-> "zero",
      num_subframes |-> 0,
      subframe_len |-> [i \in 0 .. (MAX_SUBFRAMES - 1) |-> 0],
      subframe_offset |-> [i \in 0 .. (MAX_SUBFRAMES - 1) |-> 0],
      cur_subframe |-> 0,
      decoded_samples |-> 0,
      reuse_sf |-> 0,
      scale_factor_idx |-> 0,
      table_idx |-> 0,
      saved_scale_factors |-> <<ZeroBank, ZeroBank>>,
      scale_factors |-> 0 - 1,
      max_scale_factor |-> "zero",
      scale_factor_step |-> "zero",
      sf_gen |-> 0,
      num_vec_coeffs |-> 0,
      transmit_coefs |-> 0 ]

\* the locals of decode_tilehdr, and iters: the iterations of its do-while
\* loop that have run
NoTile == [ num_samples |-> <<>>, channels_for_cur_subframe |-> 0,
            fixed_channel_layout |-> 0, min_channel_len |-> 0, iters |-> 0 ]
\* len, more_frames: locals of decode_frame; fail: the place where
\* decode_frame gave up; coef_err: decode_coeffs returned an error for some
\* channel of the frame; called: decode_frame ran in the current call;
\* tail0: the overlap history of every channel when decode_frame was entered;
\* fixout32: the samples channel[c].fixout32[i] the output loop reads for one
\* index i, and pcm: the shorts it writes for them (<<>>: not followed);
\* sf_in, sf_out: the factors saved_scale_factors[scale_factor_idx][0 ..] of
\* a channel and the factors the resampling of lines 2325-2331 makes of them;
\* fixcoeffs, fixtmp: for every index of the block of a channel whether
\* fixcoeffs[i] and s->fixtmp[i] are nonzero (1) or zero (0) (<<>>: not
\* followed);
\* sub_calls: the calls of decode_subframe made for the frame; blk: the block
\* of the last of them (s->subframe_len, its offset,
\* s->channel_indexes_for_cur_subframe, whether decode_channel_transform
\* returned 0 for it, the channels of s->chgroup[0 .. num_chgroups-1],
\* whether decode_scale_factors returned 0 for it and the bits that read,
\* and quant: for every channel the loop of lines 2784-2827 rescaled, the
\* kinds of the scale factors, max_scale_factor and scale_factor_step it used;
\* vec_end: the largest number of coefficients the vector coded phase of
\* decode_coeffs wrote for a channel of the block, from fixcoeffs[0] on;
\* winlen: the window length wmapro_window used for every channel it
\* windowed)
NoBlock == [ offset |-> 0, subframe_len |-> 0, idx |-> <<>>,
             transformed |-> FALSE, chgroup |-> <<>>, scaled |-> FALSE,
             sf_bits |-> 0, quant |-> <<>>, vec_end |-> 0, winlen |-> <<>> ]
NoFrame == [ len |-> 0, more_frames |-> 0, fail |-> "none", coef_err |-> FALSE,
             called |-> FALSE, tail0 |-> <<>>, fixout32 |-> <<>>, pcm |-> <<>>,
             sf_in |-> <<>>, sf_out |-> <<>>, fixcoeffs |-> <<>>, fixtmp |-> <<>>,
             sub_calls |-> 0, blk |-> NoBlock ]
\* buf_size: argument of decode_packet; seq: the sequence number read at
\* line 3119; seq_gap: line 3125 found a gap;
\* peek: the frame size shown at line 3157 (-1: not read); entry: the
\* values of packet_done and packet_loss when the call was made;
\* flushed: flush ran since the previous call returned
NoCall == [ buf_size |-> 0, seq |-> 0, seq_gap |-> FALSE, peek |-> 0 - 1,
            entry_done |-> 0, entry_loss |-> 0, flushed |-> FALSE ]

\* the decoder context right after a successful decode_init
InitCtx(c) ==
    /\ c.ok
    /\ cfg = c
    /\ packet_done = 0
    /\ packet_loss = 1
    /\ packet_sequence_number = 0
    /\ packet_offset = 0
    /\ next_packet_start = 0
    /\ num_saved_bits = 0
    /\ frame_offset = 0
    /\ buf_bit_size = 0
    /\ pgb = 0
    /\ gb = 0
    /\ pb = 0
    /\ res_len = 0 - 1
    /\ skip_frame = 1
    /\ samples = 0
    /\ parsed_all_subframes = 0
    /\ channel = [i \in 0 .. (c.num_channels - 1) |-> InitChannel(c)]
    /\ tile = NoTile
    /\ frame = NoFrame
    /\ call = NoCall
    /\ ret = 0
    /\ data_size = 0
    /\ num_calls = 0

(*************************** decode_tilehdr ********************************)
\* decode_subframe_length: every (length, bits read) the bit stream can give
\* at sample offset `offset`; length -1 is the error return
decode_subframe_length(offset) ==
    LET spf == cfg.samples_per_frame
        minlen == cfg.min_samples_per_subframe
        check(shift, bits) ==
            LET subframe_len == Shr(spf, shift)
            IN [ len |-> IF subframe_len < minlen \/ subframe_len > spf
                         THEN WMAPRO_ERR_InvalidData ELSE subframe_len,
                 bits |-> bits ]
    IN IF offset = spf - minlen
       THEN { [len |-> minlen, bits |-> 0] }
       ELSE IF cfg.max_subframe_len_bit = 1
       THEN { check(0, 1) } \cup
            { check(1 + v, 1 + (cfg.subframe_len_bits - 1)) :
                  v \in 0 .. (Pow2(cfg.subframe_len_bits - 1) - 1) }
       ELSE { check(v, cfg.subframe_len_bits) :
                  v \in 0 .. (Pow2(cfg.subframe_len_bits) - 1) }

\* lines 1896-1905: which channels contain the next subframe; `bit` gives the
\* value of the bit read for a channel when one is read
TileForced(t) ==
    \/ t.fixed_channel_layout = 1
    \/ t.channels_for_cur_subframe = 1
    \/ t.min_channel_len = cfg.samples_per_frame - cfg.min_samples_per_subframe

TileContains(t, bit) ==
    [c \in Chans |->
        IF t.num_samples[c] = t.min_channel_len
        THEN (IF TileForced(t) THEN 1 ELSE bit[c])
        ELSE 0]

TileContainsBits(t) ==
    IF TileForced(t) THEN 0
    ELSE Cardinality({c \in Chans : t.num_samples[c] = t.min_channel_len})

\* the loop of lines 1915-1941 without the test of lines 1926-1931 that the
\* samples of a channel do not exceed the frame
RECURSIVE TileAdd_NoSumCheck(_, _, _, _)
TileAdd_NoSumCheck(c, st, contains, subframe_len) ==
    IF c >= cfg.num_channels \/ st.err THEN st
    ELSE IF contains[c] = 1
    THEN IF st.channel[c].num_subframes >= MAX_SUBFRAMES
         THEN [st EXCEPT !.err = TRUE]
         ELSE LET n == st.channel[c].num_subframes
                  sum == (st.t.num_samples[c] + subframe_len) % 65536
              IN TileAdd_NoSumCheck(c + 1,
                     [st EXCEPT !.channel[c].subframe_len[n] = subframe_len,
                                !.channel[c].num_subframes = n + 1,
                                !.t.num_samples[c] = sum],
                     contains, subframe_len)
    ELSE IF st.t.num_samples[c] <= st.t.min_channel_len
    THEN LET st1 == IF st.t.num_samples[c] < st.t.min_channel_len
                    THEN [st EXCEPT !.t.channels_for_cur_subframe = 0,
                                    !.t.min_channel_len = st.t.num_samples[c]]
                    ELSE st
         IN TileAdd_NoSumCheck(c + 1,
                    [st1 EXCEPT !.t.channels_for_cur_subframe = @ + 1],
                    contains, subframe_len)
    ELSE TileAdd_NoSumCheck(c + 1, st, contains, subframe_len)

\* lines 1915-1941: the loop over the channels, from channel c on; st holds
\* the channel contexts, the locals and whether an error return was taken
RECURSIVE TileAdd(_, _, _, _)
TileAdd(c, st, contains, subframe_len) ==
    IF c >= cfg.num_channels \/ st.err THEN st
    ELSE IF contains[c] = 1
    THEN IF st.channel[c].num_subframes >= MAX_SUBFRAMES
         THEN [st EXCEPT !.err = TRUE]
         ELSE LET n == st.channel[c].num_subframes
                  sum == (st.t.num_samples[c] + subframe_len) % 65536
                  st1 == [st EXCEPT !.channel[c].subframe_len[n] = subframe_len,
                                    !.channel[c].num_subframes = n + 1,
                                    !.t.num_samples[c] = sum]
              IN IF sum > cfg.samples_per_frame
                 THEN [st1 EXCEPT !.err = TRUE]
                 ELSE TileAdd(c + 1, st1, contains, subframe_len)
    ELSE IF st.t.num_samples[c] <= st.t.min_channel_len
    THEN LET st1 == IF st.t.num_samples[c] < st.t.min_channel_len
                    THEN [st EXCEPT !.t.channels_for_cur_subframe = 0,
                                    !.t.min_channel_len = st.t.num_samples[c]]
                    ELSE st
         IN TileAdd(c + 1,
                    [st1 EXCEPT !.t.channels_for_cur_subframe = @ + 1],
                    contains, subframe_len)
    ELSE TileAdd(c + 1, st, contains, subframe_len)

RECURSIVE SumLen(_, _)
SumLen(len, n) == IF n <= 0 THEN 0 ELSE len[n - 1] + SumLen(len, n - 1)

\* lines 1944-1954 with the offset advanced before it is stored
TileOffsets_Shifted(ch) ==
    [ch EXCEPT !.subframe_offset =
        [i \in 0 .. (MAX_SUBFRAMES - 1) |->
            IF i < ch.num_subframes THEN SumLen(ch.subframe_len, i + 1)
            ELSE ch.subframe_offset[i]]]

\* lines 1944-1954: subframe_offset[] as the running sum of subframe_len[]
TileOffsets(ch) ==
    [ch EXCEPT !.subframe_offset =
        [i \in 0 .. (MAX_SUBFRAMES - 1) |->
            IF i < ch.num_subframes THEN SumLen(ch.subframe_len, i)
            ELSE ch.subframe_offset[i]]]

(***************************** decode_frame ********************************)
\* decode_frame returns `more` to decode_packet
FrameReturn(more, fail) ==
    /\ frame' = [frame EXCEPT !.more_frames = more, !.fail = fail,
                              !.called = TRUE]
    /\ tile' = NoTile
    /\ pc' = "pkt_reset"

\* lines 2873-2884 and 1882-1889: the output-room check, the length prefix
\* and the start of decode_tilehdr
decode_frame_begin ==
    /\ pc = "frame"
    /\ IF cfg.num_channels * cfg.samples_per_frame > samples_end - samples
       THEN /\ packet_loss' = 1
            /\ FrameReturn(0, "room")
            /\ UNCHANGED <<gb, channel>>
       ELSE /\ \E fixed \in (IF cfg.max_num_subframes = 1 THEN {1} ELSE {0, 1}) :
                 tile' = [ num_samples |-> [c \in Chans |-> 0],
                           channels_for_cur_subframe |-> cfg.num_channels,
                           fixed_channel_layout |-> fixed,
                           min_channel_len |-> 0, iters |-> 0 ]
            /\ gb' = gb + (IF cfg.len_prefix # 0 THEN cfg.log2_frame_size ELSE 0)
                        + (IF cfg.max_num_subframes = 1 THEN 0 ELSE 1)
            /\ gb' <= MaxBits
            /\ frame' = [frame EXCEPT
                             !.len = IF cfg.len_prefix # 0 THEN res_len ELSE 0,
                             !.tail0 = [c \in Chans |-> channel[c].tail]]
            /\ channel' = [c \in Chans |-> [channel[c] EXCEPT !.num_subframes = 0]]
            /\ pc' = "tilehdr"
            /\ UNCHANGED packet_loss
    /\ UNCHANGED <<cfg, num_calls, path, packet_done, packet_sequence_number,
                   packet_offset, next_packet_start, num_saved_bits,
                   frame_offset, buf_bit_size, pgb, pb, res_len, skip_frame,
                   samples, samples_end, parsed_all_subframes, call, ret,
                   data_size>>

\* lines 1892-1957 and 2884-2887: one iteration of the do-while loop of
\* decode_tilehdr, with the return of decode_tilehdr when it is the last
decode_tilehdr_iter ==
    /\ pc = "tilehdr"
    /\ \E bit \in [Chans -> {0, 1}],
          sl \in decode_subframe_length(tile.min_channel_len) :
          \E st \in {TileAdd(0, [ channel |-> channel,
                                  t |-> [tile EXCEPT !.min_channel_len = @ + sl.len,
                                                     !.iters = @ + 1],
                                  err |-> FALSE ],
                             TileContains(tile, bit), sl.len)} :
             /\ gb' = gb + TileContainsBits(tile) + sl.bits
             /\ gb' <= MaxBits
             /\ IF sl.len <= 0
                THEN /\ packet_loss' = 1
                     /\ FrameReturn(0, "tile")
                     /\ UNCHANGED channel
                ELSE IF st.err
                THEN /\ packet_loss' = 1
                     /\ FrameReturn(0, "tile")
                     /\ channel' = st.channel
                ELSE IF st.t.min_channel_len < cfg.samples_per_frame
                THEN /\ channel' = st.channel
                     /\ tile' = st.t
                     /\ UNCHANGED <<packet_loss, frame, pc>>
                ELSE /\ channel' = [c \in Chans |-> TileOffsets(st.channel[c])]
                     /\ tile' = NoTile
                     /\ pc' = "framehdr"
                     /\ UNCHANGED <<packet_loss, frame>>
    /\ UNCHANGED <<cfg, num_calls, path, packet_done, packet_sequence_number,
                   packet_offset, next_packet_start, num_saved_bits,
                   frame_offset, buf_bit_size, pgb, pb, res_len, skip_frame,
                   samples, samples_end, parsed_all_subframes, call, ret,
                   data_size>>

\* lines 2889-2915: post-processing transform, DRC gain and skip hints are
\* read and dropped, then the subframe state of every channel is reset.
\* The flag bits read are drawn from FrameHdrReads.
FrameHdrReads ==
    { [postproc |-> 0, matrix |-> 0, skip |-> 0, skip1 |-> 0, skip2 |-> 0],
      [postproc |-> 0, matrix |-> 0, skip |-> 1, skip1 |-> 1, skip2 |-> 0] }

FrameHdrBits(h) ==
    (IF cfg.num_channels > 1
     THEN 1 + (IF h.postproc = 1
               THEN 1 + (IF h.matrix = 1
                         THEN 4 * cfg.num_channels * cfg.num_channels ELSE 0)
               ELSE 0)
     ELSE 0)
    + (IF cfg.dynamic_range_compression # 0 THEN 8 ELSE 0)
    + 1
    + (IF h.skip = 1
       THEN 2 + (h.skip1 + h.skip2) * av_log2(cfg.samples_per_frame * 2)
       ELSE 0)

\* the values a channel keeps from the frames decoded before: decode_frame
\* leaves the banks, the maximum and the step as they are (lines 2910-2915
\* reset no more than three fields), and from here on they count as "stale"
AgeKind(k) == IF k = "zero" THEN "zero" ELSE "stale"
AgeBank(b) == IF b.kind = "zero" THEN ZeroBank ELSE StaleBank
AgeChannel(chc) ==
    [chc EXCEPT !.saved_scale_factors = <<AgeBank(@[1]), AgeBank(@[2])>>,
                !.max_scale_factor = AgeKind(@),
                !.scale_factor_step = AgeKind(@),
                !.sf_gen = 0]

decode_frame_header ==
    /\ pc = "framehdr"
    /\ \E h \in FrameHdrReads : gb' = gb + FrameHdrBits(h)
    /\ gb' <= MaxBits
    /\ parsed_all_subframes' = 0
    /\ channel' = [c \in Chans |->
                      [AgeChannel(channel[c]) EXCEPT !.decoded_samples = 0,
                                                     !.cur_subframe = 0,
                                                     !.reuse_sf = 0]]
    /\ pc' = "subframes"
    /\ UNCHANGED <<cfg, num_calls, path, packet_done, packet_loss, packet_sequence_number,
                   packet_offset, next_packet_start, num_saved_bits,
                   frame_offset, buf_bit_size, pgb, pb, res_len, skip_frame,
                   samples, samples_end, tile, frame, call, ret, data_size>>

(**************************** decode_subframe ******************************)
\* the scan of lines 2615-2622 with >= for > in the test of line 2617: the
\* last channel with the fewest decoded samples gives the length
RECURSIVE FindBlock_Last(_, _, _)
FindBlock_Last(i, offset, subframe_len) ==
    IF i >= cfg.num_channels THEN [offset |-> offset, subframe_len |-> subframe_len]
    ELSE IF offset >= channel[i].decoded_samples
            /\ channel[i].decoded_samples < cfg.samples_per_frame
    THEN FindBlock_Last(i + 1, channel[i].decoded_samples,
                        channel[i].subframe_len[channel[i].cur_subframe])
    ELSE FindBlock_Last(i + 1, offset, subframe_len)

\* lines 2615-2622: offset and length of the next block, scanning from
\* channel i on
RECURSIVE FindBlock(_, _, _)
FindBlock(i, offset, subframe_len) ==
    IF i >= cfg.num_channels THEN [offset |-> offset, subframe_len |-> subframe_len]
    ELSE IF offset > channel[i].decoded_samples
    THEN FindBlock(i + 1, channel[i].decoded_samples,
                   channel[i].subframe_len[channel[i].cur_subframe])
    ELSE FindBlock(i + 1, offset, subframe_len)

\* lines 2635-2636: channel i contains the block
InBlock(i, b) ==
    /\ b.offset = channel[i].decoded_samples
    /\ b.subframe_len = channel[i].subframe_len[channel[i].cur_subframe]

\* channel_indexes_for_cur_subframe, from channel i on
RECURSIVE BlockChannels(_, _)
BlockChannels(i, b) ==
    IF i >= cfg.num_channels THEN <<>>
    ELSE IF InBlock(i, b) THEN <<i>> \o BlockChannels(i + 1, b)
    ELSE BlockChannels(i + 1, b)

\* lines 2637-2642 without the advance of decoded_samples
BlockAdvance_Stuck(ch, idx, k) == ch

\* lines 2639-2640: decoded_samples of the channels idx[k..] advances
RECURSIVE BlockAdvance(_, _, _)
BlockAdvance(ch, idx, k) ==
    IF k > Len(idx) THEN ch
    ELSE LET c == idx[k]
         IN BlockAdvance([ch EXCEPT ![c].decoded_samples =
                             (@ + ch[c].subframe_len[ch[c].cur_subframe]) % 65536],
                         idx, k + 1)

\* lines 2702-2706: the transmit_coefs bit of the channels idx[k..]
RECURSIVE ReadTransmitCoefs(_, _, _, _)
ReadTransmitCoefs(ch, idx, k, tc) ==
    IF k > Len(idx) THEN ch
    ELSE ReadTransmitCoefs([ch EXCEPT ![idx[k]].transmit_coefs = tc[idx[k]]],
                           idx, k + 1, tc)

\* lines 2510-2515: the window length wmapro_window uses for a channel
WinLen(c, subframe_len) ==
    IF subframe_len < c.prev_block_len THEN subframe_len ELSE c.prev_block_len

\* line 2521: what the window leaves in the overlap history of a channel.
\* The window rewrites fixout32[start .. start + winlen - 1] from its old
\* contents and the new block, which starts at samples_per_frame/2 + offset;
\* nz tells whether the new block holds a nonzero sample.
WindowTail(c, offset, subframe_len, nz) ==
    LET half == cfg.samples_per_frame \div 2
        winlen == WinLen(c, subframe_len)
        start == half + offset - (winlen \div 2)
    IN IF start >= half \/ winlen = 0 THEN c.tail
       ELSE IF c.tail = "zero" /\ ~nz THEN "zero"
       ELSE "mixed"

\* lines 2503-2525 without the assignment of line 2522
wmapro_window_KeepPrev(ch, idx, k, offset, subframe_len, nzs) ==
    [c \in DOMAIN ch |->
        IF c \in {idx[j] : j \in k .. Len(idx)}
        THEN [ch[c] EXCEPT !.tail = WindowTail(ch[c], offset, subframe_len,
                                               c \in nzs)]
        ELSE ch[c]]

\* lines 2503-2525, wmapro_window over the channels idx[k..]; nzs is the set
\* of channels whose new block holds a nonzero sample
RECURSIVE wmapro_window(_, _, _, _, _, _)
wmapro_window(ch, idx, k, offset, subframe_len, nzs) ==
    IF k > Len(idx) THEN ch
    ELSE wmapro_window([ch EXCEPT ![idx[k]].prev_block_len = subframe_len,
                                  ![idx[k]].tail =
                                      WindowTail(ch[idx[k]], offset, subframe_len,
                                                 idx[k] \in nzs)],
                       idx, k + 1, offset, subframe_len, nzs)

RECURSIVE SumDecoded(_, _)
SumDecoded(ch, i) ==
    IF i >= cfg.num_channels THEN 0
    ELSE ch[i].decoded_samples + SumDecoded(ch, i + 1)

\* lines 2316 and 2325-2331: the other bank is selected and, when reuse_sf
\* is set, filled with the factors of the current bank resampled to the
\* layout of the block
SfResample(chc, table_idx) ==
    LET cur == chc.saved_scale_factors[chc.scale_factor_idx + 1]
    IN [chc EXCEPT !.scale_factors = 1 - chc.scale_factor_idx,
                   !.saved_scale_factors[2 - chc.scale_factor_idx] =
                       IF chc.reuse_sf = 0 THEN @
                       ELSE IF cur.kind = "tx"
                            THEN [kind |-> "res", table |-> table_idx,
                                  gen |-> cur.gen]
                            ELSE cur]

\* lines 2334-2377: new factors are decoded into the selected bank, DPCM
\* coded when reuse_sf is 0 (the step is read at line 2337) and as run-level
\* coded differences otherwise; fail: the run-level decode overruns num_bands
\* and returns at line 2372
SfDecode(chc, table_idx, fail) ==
    IF chc.reuse_sf = 0
    THEN [chc EXCEPT !.saved_scale_factors[chc.scale_factors + 1] =
                         [kind |-> "tx", table |-> table_idx,
                          gen |-> chc.sf_gen + 1],
                     !.scale_factor_step = "tx",
                     !.sf_gen = @ + 1]
    ELSE IF fail
    THEN [chc EXCEPT !.saved_scale_factors[chc.scale_factors + 1] =
                         [kind |-> "part", table |-> table_idx, gen |-> @.gen]]
    ELSE [chc EXCEPT !.saved_scale_factors[chc.scale_factors + 1] =
                         [kind |-> "tx", table |-> table_idx,
                          gen |-> chc.sf_gen + 1],
                     !.sf_gen = @ + 1]

\* lines 2379-2381 without the toggle of line 2379
SfSwap_NoToggle(chc, table_idx) ==
    [chc EXCEPT !.table_idx = table_idx, !.reuse_sf = 1]

\* lines 2379-2381: swap buffers
SfSwap(chc, table_idx) ==
    [chc EXCEPT !.scale_factor_idx = 1 - @,
                !.table_idx = table_idx,
                !.reuse_sf = 1]

\* lines 2385-2389: the new scale factor maximum
SfMax(chc) ==
    [chc EXCEPT !.max_scale_factor =
                    chc.saved_scale_factors[chc.scale_factors + 1].kind]

\* lines 2787 and 2797-2799: what the inverse quantization of a channel
\* reads, channel[c].scale_factors, max_scale_factor and scale_factor_step
QuantInputs(chc) ==
    [sf |-> IF chc.scale_factors < 0 THEN "zero"
            ELSE chc.saved_scale_factors[chc.scale_factors + 1].kind,
     max |-> chc.max_scale_factor,
     step |-> chc.scale_factor_step]

\* the loop of lines 2313-2391 with the channels that transmit no
\* coefficients passed over
RECURSIVE decode_scale_factors_Skip(_, _, _, _, _, _, _)
decode_scale_factors_Skip(ch, idx, k, newsf, sferr, table_idx, bits) ==
    IF k > Len(idx) THEN [channel |-> ch, err |-> FALSE, bits |-> bits]
    ELSE LET c == idx[k]
             bits1 == bits + (IF ch[c].cur_subframe # 0 THEN 1 ELSE 0)
             sel == SfResample(ch[c], table_idx)
         IN IF ch[c].transmit_coefs = 0
            THEN decode_scale_factors_Skip(ch, idx, k + 1, newsf, sferr,
                                           table_idx, bits)
            ELSE IF ch[c].cur_subframe = 0 \/ newsf[c] = 1
            THEN IF ch[c].reuse_sf # 0 /\ sferr = c
                 THEN [channel |-> [ch EXCEPT ![c] = SfDecode(sel, table_idx, TRUE)],
                       err |-> TRUE, bits |-> bits1 + SfBits]
                 ELSE decode_scale_factors_Skip(
                          [ch EXCEPT ![c] =
                              SfMax(SfSwap(SfDecode(sel, table_idx, FALSE),
                                           table_idx))],
                          idx, k + 1, newsf, sferr, table_idx, bits1 + SfBits)
            ELSE decode_scale_factors_Skip([ch EXCEPT ![c] = SfMax(sel)],
                                           idx, k + 1, newsf, sferr,
                                           table_idx, bits1)

\* lines 2313-2391, decode_scale_factors over the channels idx[k..]: newsf[c]
\* is the "new factors" bit of channel c, read at line 2333 when the channel
\* is not in its first subframe; sferr the channel whose run-level coded
\* factors overrun num_bands (-1: none); table_idx is s->table_idx.  The
\* coded factors of a channel take SfBits bits.  Returns the channels,
\* whether the error return was taken and the bits read.
RECURSIVE decode_scale_factors(_, _, _, _, _, _, _)
decode_scale_factors(ch, idx, k, newsf, sferr, table_idx, bits) ==
    IF k > Len(idx) THEN [channel |-> ch, err |-> FALSE, bits |-> bits]
    ELSE LET c == idx[k]
             bits1 == bits + (IF ch[c].cur_subframe # 0 THEN 1 ELSE 0)
             sel == SfResample(ch[c], table_idx)
         IN IF ch[c].cur_subframe = 0 \/ newsf[c] = 1
            THEN IF ch[c].reuse_sf # 0 /\ sferr = c
                 THEN [channel |-> [ch EXCEPT ![c] = SfDecode(sel, table_idx, TRUE)],
                       err |-> TRUE, bits |-> bits1 + SfBits]
                 ELSE decode_scale_factors(
                          [ch EXCEPT ![c] =
                              SfMax(SfSwap(SfDecode(sel, table_idx, FALSE),
                                           table_idx))],
                          idx, k + 1, newsf, sferr, table_idx, bits1 + SfBits)
            ELSE decode_scale_factors([ch EXCEPT ![c] = SfMax(sel)],
                                      idx, k + 1, newsf, sferr,
                                      table_idx, bits1)

\* line 2714: the width of a transmitted number of vector coded coefficients
NumVecBits(subframe_len) == av_log2((subframe_len + 3) \div 4) + 1

\* the values followed for the field read at line 2717: none (-1,
\* transmit_num_vec_coeffs is 0), 1 and the largest the field holds
VecInputs(subframe_len) == {0 - 1, 1, (2 ^ NumVecBits(subframe_len)) - 1}

\* lines 2712-2724: num_vec_coeffs of the channels idx[k..]; vq is the value
\* read for each of them at line 2717 (-1: transmit_num_vec_coeffs is 0)
RECURSIVE ReadNumVecCoeffs(_, _, _, _, _)
ReadNumVecCoeffs(ch, idx, k, vq, subframe_len) ==
    IF k > Len(idx) THEN ch
    ELSE ReadNumVecCoeffs(
             [ch EXCEPT ![idx[k]].num_vec_coeffs =
                            IF vq < 0 THEN subframe_len
                            ELSE (vq * 4) % 65536],
             idx, k + 1, vq, subframe_len)

\* lines 2232-2273: the coefficients fixcoeffs[0 .. VecCoeffs - 1] the vector
\* coded phase writes when it runs until cur_coeff + 3 reaches num_vec_coeffs
\* (with transmit_num_vec_coeffs set nothing else ends it; without it the
\* phase may end earlier, at a run of zeros)
VecCoeffs(num_vec_coeffs) == 4 * (num_vec_coeffs \div 4)

\* lines 2770-2779: the coefficients of the channels idx[k..], starting with
\* the reader at bit `pos`; esc is the channel whose run-level coded
\* coefficients hold the illegal escape (-1: none).  The value returned by
\* decode_coeffs is dropped at line 2774.  Returns the reader position and
\* whether decode_coeffs returned an error for some channel.
RECURSIVE ParseCoeffs(_, _, _, _, _)
ParseCoeffs(ch, idx, k, pos, esc) ==
    IF k > Len(idx) THEN [pos |-> pos, coef_err |-> FALSE, vec_end |-> 0]
    ELSE LET c == idx[k]
         IN IF ch[c].transmit_coefs # 0 /\ pos < num_saved_bits
            THEN LET r == ParseCoeffs(ch, idx, k + 1, pos + CoefBits, esc)
                     v == VecCoeffs(ch[c].num_vec_coeffs)
                 IN [r EXCEPT !.coef_err = @ \/ (esc = c),
                              !.vec_end = IF v > @ THEN v ELSE @]
            ELSE ParseCoeffs(ch, idx, k + 1, pos, esc)

\* lines 2847-2855: the subframe counters of the channels idx[k..]
RECURSIVE HandledSubframe(_, _, _)
HandledSubframe(ch, idx, k) ==
    IF k > Len(idx) THEN [channel |-> ch, err |-> FALSE]
    ELSE LET c == idx[k]
         IN IF ch[c].cur_subframe >= ch[c].num_subframes
            THEN [channel |-> ch, err |-> TRUE]
            ELSE HandledSubframe([ch EXCEPT ![c].cur_subframe = @ + 1], idx, k + 1)

\* the members of a sequence of channel indexes
SeqSet(idx) == {idx[k] : k \in 1 .. Len(idx)}

\* lines 2051-2100: the bits that give the transform of a group of `size`
\* channels, for the streams explored: a group of two reads "1, 0" (no
\* transform), a larger group reads "0" (no transform)
TransformTypeBits(size) == IF size = 2 THEN 2 ELSE IF size > 2 THEN 1 ELSE 0

\* the channel masks a block of more than two channels can carry: every
\* channel, no channel, the first channel of the block only
MaskInputs(idx) ==
    IF Len(idx) <= 2 THEN {[c \in SeqSet(idx) |-> 1]}
    ELSE {[c \in SeqSet(idx) |-> 1], [c \in SeqSet(idx) |-> 0],
          [c \in SeqSet(idx) |-> IF c = idx[1] THEN 1 ELSE 0]}

\* the loop of lines 2030-2116 with the assignments of lines 2043 and 2054
\* to `grouped` left out
RECURSIVE decode_channel_transform_NoMark(_, _, _, _, _)
decode_channel_transform_NoMark(idx, mask, st, remaining, bits) ==
    IF remaining = 0 \/ Len(st.chgroup) >= Len(idx)
    THEN [chgroup |-> st.chgroup, bits |-> bits]
    ELSE LET free == SeqSet(idx)
             members == IF remaining > 2 THEN {c \in free : mask[c] = 1}
                        ELSE free
             size == IF remaining > 2 THEN Cardinality(members) ELSE remaining
         IN decode_channel_transform_NoMark(idx, mask,
                [chgroup |-> Append(st.chgroup, members),
                 grouped |-> st.grouped],
                remaining - size,
                bits + (IF remaining > 2 THEN Cardinality(free) ELSE 0)
                     + TransformTypeBits(size))

\* lines 2030-2116, the loop of decode_channel_transform over the groups,
\* entered after the bit of line 2024: st.chgroup holds the channels whose
\* data pointers each group so far was given, st.grouped the channels whose
\* grouped flag is set; mask gives the channel mask bits of line 2041.
\* Returns the groups and the bits read.
RECURSIVE decode_channel_transform(_, _, _, _, _)
decode_channel_transform(idx, mask, st, remaining, bits) ==
    IF remaining = 0 \/ Len(st.chgroup) >= Len(idx)
    THEN [chgroup |-> st.chgroup, bits |-> bits]
    ELSE LET free == SeqSet(idx) \ st.grouped
             members == IF remaining > 2 THEN {c \in free : mask[c] = 1}
                        ELSE free
             size == IF remaining > 2 THEN Cardinality(members) ELSE remaining
         IN decode_channel_transform(idx, mask,
                [chgroup |-> Append(st.chgroup, members),
                 grouped |-> IF remaining > 2 THEN st.grouped \cup members
                             ELSE SeqSet(idx)],
                remaining - size,
                bits + (IF remaining > 2 THEN Cardinality(free) ELSE 0)
                     + TransformTypeBits(size))

\* lines 2672-2688: the extended header; nfb is num_fill_bits, 0 when the
\* header is absent
FillInputs == {0, 1, 32768}
ExtHeaderBits(nfb) ==
    IF nfb = 0 THEN 1 ELSE IF nfb <= 3 THEN 3 ELSE 1 + 2 + 4 + 15

\* decode_subframe fails in the block blk at the place `why`: decode_frame
\* sets packet_loss and returns 0 (lines 2918-2921)
SubframeFail(ch, par, pos, blk, why) ==
    /\ channel' = ch
    /\ parsed_all_subframes' = par
    /\ gb' = pos
    /\ packet_loss' = 1
    /\ frame' = [frame EXCEPT !.more_frames = 0, !.fail = why, !.called = TRUE,
                              !.sub_calls = @ + 1, !.blk = blk]
    /\ tile' = NoTile
    /\ pc' = "pkt_reset"

\* lines 2600-2858 with the loop test of line 2917: one call of
\* decode_subframe
decode_subframe ==
    /\ pc = "subframes"
    /\ \E b \in {FindBlock(0, cfg.samples_per_frame, cfg.samples_per_frame)} :
       \E idx \in {BlockChannels(0, b)} :
       \E ch1 \in {BlockAdvance(channel, idx, 1)} :
       \E par \in {IF cfg.samples_per_frame * cfg.num_channels
                      - SumDecoded(ch1, 0) = 0
                   THEN 1 ELSE parsed_all_subframes} :
       \E nfb \in FillInputs, mask \in MaskInputs(idx) :
       \E ct \in {IF cfg.num_channels > 1
                  THEN decode_channel_transform(idx, mask,
                           [chgroup |-> <<>>, grouped |-> {}], Len(idx), 0)
                  ELSE [chgroup |-> <<>>, bits |-> 0]} :
          LET n == Len(idx)
              inblock == SeqSet(idx)
              p1 == gb + ExtHeaderBits(nfb)
              p2 == (IF nfb > 0 THEN p1 + nfb ELSE p1) + 1
              p3 == IF cfg.num_channels > 1 THEN p2 + 1 ELSE p2
              p4 == p3 + ct.bits + n
              blk0 == [offset |-> b.offset, subframe_len |-> b.subframe_len,
                       idx |-> idx, transformed |-> FALSE, chgroup |-> <<>>,
                       scaled |-> FALSE, sf_bits |-> 0, quant |-> <<>>,
                       vec_end |-> 0, winlen |-> <<>>]
              blk1 == [blk0 EXCEPT !.transformed = TRUE, !.chgroup = ct.chgroup]
          IN IF nfb > 0 /\ p1 + nfb > num_saved_bits
             THEN \* line 2680: invalid number of fill bits
                  /\ p1 <= MaxBits
                  /\ SubframeFail(ch1, par, p1, blk0, "subframe")
             ELSE \/ \* line 2691: reserved bit set
                     /\ p2 <= MaxBits
                     /\ SubframeFail(ch1, par, p2, blk0, "subframe")
                  \/ \* line 2024: unsupported channel transform bit
                     /\ cfg.num_channels > 1
                     /\ p3 <= MaxBits
                     /\ SubframeFail(ch1, par, p3, blk0, "subframe")
                  \/ /\ p4 <= MaxBits
                     /\ \E tc \in [inblock -> {0, 1}] :
                        LET transmit_coeffs == \E c \in inblock : tc[c] = 1
                            p5 == IF transmit_coeffs
                                  THEN p4 + 1 + 6 + (IF n > 1 THEN 3 + n ELSE 0)
                                  ELSE p4
                            vqs == IF transmit_coeffs
                                   THEN VecInputs(b.subframe_len) ELSE {0 - 1}
                            table_idx == av_log2(cfg.samples_per_frame
                                                 \div b.subframe_len)
                        IN /\ p5 <= MaxBits
                           /\ \E newsf \in {f \in [inblock -> {0, 1}] :
                                               \A c \in inblock :
                                                  f[c] = 1 => /\ transmit_coeffs
                                                              /\ ch1[c].cur_subframe # 0} :
                              \E sferr \in {0 - 1} \cup
                                           {c \in inblock :
                                               /\ transmit_coeffs
                                               /\ ch1[c].reuse_sf # 0
                                               /\ (ch1[c].cur_subframe = 0
                                                   \/ newsf[c] = 1)},
                                 esc \in {0 - 1} \cup {c \in inblock : tc[c] = 1},
                                 nzs \in (IF transmit_coeffs /\ b.offset = 0
                                          THEN {{}, inblock} ELSE {{}}),
                                 vq \in vqs :
                              \E sf \in {IF transmit_coeffs
                                         THEN decode_scale_factors(
                                                  ReadNumVecCoeffs(
                                                     ReadTransmitCoefs(ch1, idx, 1, tc),
                                                     idx, 1, vq, b.subframe_len),
                                                  idx, 1, newsf, sferr,
                                                  table_idx, 0)
                                         ELSE [channel |-> ReadTransmitCoefs(ch1, idx, 1, tc),
                                               err |-> FALSE, bits |-> 0]} :
                                 LET p6 == p5 + sf.bits
                                           + (IF vq >= 0
                                              THEN n * NumVecBits(b.subframe_len)
                                              ELSE 0)
                                     blk == [blk1 EXCEPT
                                                !.scaled = transmit_coeffs,
                                                !.sf_bits = sf.bits,
                                                !.winlen =
                                                   [c \in inblock |->
                                                       WinLen(sf.channel[c],
                                                              b.subframe_len)],
                                                !.quant =
                                                   IF transmit_coeffs
                                                   THEN [c \in inblock |->
                                                           QuantInputs(sf.channel[c])]
                                                   ELSE <<>>]
                                 IN
                                 IF sf.err
                                 THEN \* line 2760: invalid scale factor coding
                                      /\ p6 <= MaxBits
                                      /\ SubframeFail(sf.channel, par, p6, blk1, "subframe")
                                 ELSE \E co \in {ParseCoeffs(sf.channel, idx, 1, p6, esc)},
                                         hs \in {HandledSubframe(
                                                    wmapro_window(sf.channel, idx, 1,
                                                                  b.offset,
                                                                  b.subframe_len, nzs),
                                                    idx, 1)} :
                                      IF hs.err
                                      THEN \* line 2849: broken subframe
                                           /\ co.pos <= MaxBits
                                           /\ SubframeFail(hs.channel, par, co.pos,
                                                           [blk EXCEPT !.vec_end = co.vec_end],
                                                           "broken")
                                      ELSE /\ co.pos <= MaxBits
                                           /\ gb' = co.pos
                                           /\ channel' = hs.channel
                                           /\ parsed_all_subframes' = par
                                           /\ frame' = [frame EXCEPT
                                                           !.coef_err = @ \/ co.coef_err,
                                                           !.sub_calls = @ + 1,
                                                           !.blk = [blk EXCEPT
                                                              !.vec_end = co.vec_end]]
                                           /\ pc' = IF par # 0 THEN "frame_end"
                                                    ELSE "subframes"
                                           /\ UNCHANGED <<packet_loss, tile>>
    /\ UNCHANGED <<cfg, num_calls, path, packet_done, packet_sequence_number,
                   packet_offset, next_packet_start, num_saved_bits,
                   frame_offset, buf_bit_size, pgb, pb, res_len, skip_frame,
                   samples, samples_end, call, ret, data_size>>

\* An int32_t sample x is written [hi |-> x >> 12, lo |-> x & 4095], so that
\* sums that leave the 32-bit range can be written down: hi is a signed
\* 20-bit value when x fits 32 bits.
Sample(hi, lo) == [hi |-> hi, lo |-> lo]

\* the high part of a 32-bit two's complement value
Int32Wrap(hi) == ((hi + Pow2(19)) % Pow2(20)) - Pow2(19)

\* a + b on int32_t: an overflow is undefined, a build gives the wrapped sum
\* or carries the sum on in a wider register
Add32(a, b) ==
    LET lo == a.lo + b.lo
        hi == a.hi + b.hi + (lo \div 4096)
    IN IF 0 - Pow2(19) <= hi /\ hi < Pow2(19) THEN {Sample(hi, lo % 4096)}
       ELSE {Sample(Int32Wrap(hi), lo % 4096), Sample(hi, lo % 4096)}

av_clip_int16(a) ==
    IF a < 0 - 32768 THEN 0 - 32768 ELSE IF a > 32767 THEN 32767 ELSE a

\* lines 2941-2986 (DOWNMIX is defined at line 2923): the shorts written for
\* one sample index from the samples c[0 .. n-1] of the channels, as the set
\* of the results a build can give; v >> (27 - 15) is the high part of v
Downmix(n, c) ==
    LET out(v) == av_clip_int16(v.hi)
    IN IF n <= 2 THEN {[i \in 1 .. n |-> out(c[i - 1])]}
       ELSE IF n = 3
       THEN {<<out(l), out(r)>> : l \in Add32(c[0], c[2]), r \in Add32(c[1], c[2])}
       ELSE IF n = 4
       THEN {<<out(l), out(r)>> : l \in Add32(c[0], c[2]), r \in Add32(c[1], c[3])}
       ELSE {<<out(l), out(r)>> :
                l \in UNION {Add32(x, c[3]) : x \in Add32(c[0], c[2])},
                r \in UNION {Add32(x, c[4]) : x \in Add32(c[1], c[2])}}

\* lines 2941-2986 for one sample index of a decoded frame
downmix ==
    /\ pc = "downmix"
    /\ \E out \in Downmix(cfg.num_channels, frame.fixout32) :
          frame' = [frame EXCEPT !.pcm = out]
    /\ pc' = "frame_end"
    /\ UNCHANGED <<cfg, num_calls, path, packet_done, packet_loss,
                   packet_sequence_number, packet_offset, next_packet_start,
                   num_saved_bits, frame_offset, buf_bit_size, pgb, gb, pb,
                   res_len, skip_frame, samples, samples_end,
                   parsed_all_subframes, channel, tile, call, ret, data_size>>

\* the advance of s->samples by a frame with the sample count doubled
FrameSamples_Bytes ==
    2 * cfg.samples_per_frame * (IF cfg.num_channels > 2 THEN 2 ELSE cfg.num_channels)

\* line 2999: the shorts one frame adds to the output
FrameSamples ==
    cfg.samples_per_frame * (IF cfg.num_channels > 2 THEN 2 ELSE cfg.num_channels)

\* the output pointer advanced by every frame, the skipped one included
AdvanceSamples_NoSkip(skip, out) ==
    out + FrameSamples

\* lines 2994-3001: the output pointer after a frame, from the skip flag and
\* the output pointer before it
AdvanceSamples(skip, out) ==
    IF skip # 0 THEN out ELSE out + FrameSamples

\* lines 2941-3022: downmix and output, the frame trailer and the return
\* of decode_frame.  A length prefix whose bits the code has not seen
\* before (frame.len = -1) matches or not as the stream decides.
decode_frame_end ==
    /\ pc = "frame_end"
    /\ channel' = [c \in Chans |-> [channel[c] EXCEPT !.tail = "hist"]]
    /\ skip_frame' = 0
    /\ samples' = AdvanceSamples(skip_frame, samples)
    /\ IF cfg.len_prefix # 0
       THEN LET want == (gb - frame_offset) + 2
                lens == IF frame.len >= 0 THEN {frame.len}
                        ELSE {v \in {want, want + 2} :
                                 v < Pow2(cfg.log2_frame_size)}
            IN \E len \in lens :
                  IF len # want
                  THEN /\ packet_loss' = 1
                       /\ FrameReturn(0, "trailer")
                       /\ UNCHANGED gb
                  ELSE /\ gb' = gb + (len - (gb - frame_offset) - 1) + 1
                       /\ \E more \in {0, 1} : FrameReturn(more, "none")
                       /\ UNCHANGED packet_loss
       ELSE /\ \E zeros \in (IF gb < num_saved_bits
                              THEN {1, num_saved_bits - gb} ELSE {0}) :
                 gb' = gb + zeros + 1
            /\ \E more \in {0, 1} : FrameReturn(more, "none")
            /\ UNCHANGED packet_loss
    /\ gb' <= MaxBits
    /\ UNCHANGED <<cfg, num_calls, path, packet_done, packet_sequence_number,
                   packet_offset, next_packet_start, num_saved_bits,
                   frame_offset, buf_bit_size, pgb, pb, res_len, samples_end,
                   parsed_all_subframes, call, ret, data_size>>

(****************************** save_bits **********************************)
\* save_bits without the skip_bits_long of line 3077: the packet reader
\* stays where it was
save_bits_NoSkip(len, append, loss, nsb, fo, pbits, ppos, gpos, rlen, peek) ==
    LET fo1 == IF append = 0 THEN ppos % 8 ELSE fo
        nsb1 == IF append = 0 THEN fo1 ELSE nsb
        pb1 == IF append = 0 THEN 0 ELSE pbits
        rlen1 == IF append = 0 THEN peek ELSE rlen
        buflen == Shr(nsb1 + len + 8, 3)
    IN IF len <= 0 \/ buflen > MAX_FRAMESIZE
       THEN [ packet_loss |-> 1, num_saved_bits |-> nsb1, frame_offset |-> fo1,
              pb |-> pb1, pgb |-> ppos, gb |-> gpos, res_len |-> rlen1 ]
       ELSE [ packet_loss |-> loss, num_saved_bits |-> nsb1 + len,
              frame_offset |-> fo1,
              pb |-> IF append = 0 THEN nsb1 + len ELSE pb1 + len,
              pgb |-> ppos, gb |-> fo1, res_len |-> rlen1 ]

\* lines 3043-3086: save_bits(s, &s->pgb, len, append) as the new values of
\* the fields it writes; peek is the frame length the code has shown at the
\* packet reader's position (-1: none)
save_bits(len, append, loss, nsb, fo, pbits, ppos, gpos, rlen, peek) ==
    LET fo1 == IF append = 0 THEN ppos % 8 ELSE fo
        nsb1 == IF append = 0 THEN fo1 ELSE nsb
        pb1 == IF append = 0 THEN 0 ELSE pbits
        rlen1 == IF append = 0 THEN peek ELSE rlen
        buflen == Shr(nsb1 + len + 8, 3)
    IN IF len <= 0 \/ buflen > MAX_FRAMESIZE
       THEN [ packet_loss |-> 1, num_saved_bits |-> nsb1, frame_offset |-> fo1,
              pb |-> pb1, pgb |-> ppos, gb |-> gpos, res_len |-> rlen1 ]
       ELSE [ packet_loss |-> loss, num_saved_bits |-> nsb1 + len,
              frame_offset |-> fo1,
              pb |-> IF append = 0 THEN nsb1 + len ELSE pb1 + len,
              pgb |-> ppos + len, gb |-> fo1, res_len |-> rlen1 ]

(***************************** decode_packet *******************************)
\* the arguments of a call and the header fields a packet can carry
BufSizes == {cfg.block_align - 2, cfg.block_align}
OutRooms == {cfg.num_channels * cfg.samples_per_frame - 1,
             cfg.num_channels * cfg.samples_per_frame}
SeqInputs == {0, 15}
PeekSizes == {12, 17, 20}
PrevBits == {0, 4, Pow2(cfg.log2_frame_size) - 1}
FrameSizes(remaining) ==
    {v \in {0, remaining + 1} \cup PeekSizes : v < Pow2(cfg.log2_frame_size)}

\* lines 3119-3122: the bits of the packet header
HeaderBits == 4 + 2 + cfg.log2_frame_size

\* the sanity check of line 3110 made against zero, not block_align
ShortPacket_Off(buf_size) == buf_size <= 0

\* line 3110: the sanity check of the buffer length
ShortPacket(buf_size) == buf_size < cfg.block_align

\* lines 3107-3141: a call made with packet_done or packet_loss set, up to
\* the call of decode_frame
decode_packet_header ==
    /\ pc = "idle"
    /\ num_calls < MaxCalls
    /\ num_calls' = num_calls + 1
    /\ packet_done # 0 \/ packet_loss # 0
    /\ \E buf_size \in BufSizes, room \in OutRooms :
        /\ samples' = 0
        /\ samples_end' = room
        /\ data_size' = 0
        /\ frame' = NoFrame
        /\ IF ShortPacket(buf_size)
           THEN /\ packet_done' = 0
                /\ ret' = WMAPRO_ERR_InvalidData
                /\ call' = [NoCall EXCEPT !.flushed = call.flushed, !.buf_size = buf_size,
                                          !.entry_done = packet_done,
                                          !.entry_loss = packet_loss]
                /\ path' = "short"
                /\ pc' = "returned"
                /\ UNCHANGED <<packet_loss, packet_sequence_number,
                               next_packet_start, num_saved_bits, frame_offset,
                               buf_bit_size, pgb, gb, pb, res_len>>
           ELSE \E seq \in SeqInputs, prev \in PrevBits :
                LET bits == cfg.block_align * 8
                    gap == packet_loss = 0
                           /\ ((packet_sequence_number + 1) % 16) # seq
                    loss1 == IF gap THEN 1 ELSE packet_loss
                    remaining_packet_bits == bits - HeaderBits
                    full == prev >= remaining_packet_bits
                    num_bits_prev_frame == IF full THEN remaining_packet_bits ELSE prev
                IN \E sv \in {save_bits(num_bits_prev_frame, 1, loss1, num_saved_bits,
                                       frame_offset, pb, HeaderBits, gb, res_len,
                                       0 - 1)} :
                   /\ next_packet_start' = buf_size - cfg.block_align
                   /\ buf_bit_size' = bits
                   /\ packet_sequence_number' = seq
                   /\ call' = [NoCall EXCEPT !.flushed = call.flushed, !.buf_size = buf_size,
                                             !.seq = seq,
                                             !.seq_gap = gap,
                                             !.entry_done = packet_done,
                                             !.entry_loss = packet_loss]
                   /\ path' = "hdr"
                   /\ ret' = 0
                   /\ sv.num_saved_bits <= MaxResPackets * bits
                   /\ sv.pb <= MaxResPackets * bits
                   /\ IF prev > 0
                      THEN /\ packet_done' = IF full THEN 1 ELSE 0
                           /\ packet_loss' = sv.packet_loss
                           /\ num_saved_bits' = sv.num_saved_bits
                           /\ frame_offset' = sv.frame_offset
                           /\ pb' = sv.pb
                           /\ pgb' = sv.pgb
                           /\ gb' = sv.gb
                           /\ res_len' = sv.res_len
                           /\ pc' = IF sv.packet_loss = 0 THEN "frame" ELSE "pkt_reset"
                      ELSE /\ packet_done' = 0
                           /\ packet_loss' = loss1
                           /\ pgb' = HeaderBits
                           /\ pc' = "pkt_reset"
                           /\ UNCHANGED <<num_saved_bits, frame_offset, pb, gb,
                                          res_len>>
    /\ UNCHANGED <<cfg, packet_offset, skip_frame, parsed_all_subframes,
                   channel, tile>>

\* lines 3103-3105 and 3151-3175: a call made inside a packet, up to the
\* call of decode_frame
decode_packet_continue ==
    /\ pc = "idle"
    /\ num_calls < MaxCalls
    /\ num_calls' = num_calls + 1
    /\ packet_done = 0 /\ packet_loss = 0
    /\ \E buf_size \in BufSizes, room \in OutRooms :
        LET bits == (buf_size - next_packet_start) * 8
            remaining == bits - packet_offset
            canpeek == cfg.len_prefix # 0 /\ remaining > cfg.log2_frame_size
        IN /\ samples' = 0
           /\ samples_end' = room
           /\ data_size' = 0
           /\ frame' = NoFrame
           /\ buf_bit_size' = bits
           /\ path' = "cont"
           /\ ret' = 0
           /\ \E frame_size \in (IF canpeek THEN FrameSizes(remaining) ELSE {0 - 1}) :
              /\ call' = [NoCall EXCEPT !.flushed = call.flushed, !.buf_size = buf_size, !.peek = frame_size]
              /\ IF canpeek /\ frame_size # 0 /\ frame_size <= remaining
                 THEN \E sv \in {save_bits(frame_size, 0, packet_loss, num_saved_bits,
                                            frame_offset, pb, packet_offset, gb,
                                            res_len, frame_size)} :
                         /\ packet_loss' = sv.packet_loss
                         /\ num_saved_bits' = sv.num_saved_bits
                         /\ frame_offset' = sv.frame_offset
                         /\ pb' = sv.pb
                         /\ pgb' = sv.pgb
                         /\ gb' = sv.gb
                         /\ res_len' = sv.res_len
                         /\ pc' = "frame"
                         /\ UNCHANGED packet_done
                 ELSE IF cfg.len_prefix = 0 /\ num_saved_bits > gb
                 THEN /\ pgb' = packet_offset
                      /\ pc' = "frame"
                      /\ UNCHANGED <<packet_done, packet_loss, num_saved_bits,
                                     frame_offset, pb, gb, res_len>>
                 ELSE /\ pgb' = packet_offset
                      /\ packet_done' = 1
                      /\ pc' = "pkt_save"
                      /\ UNCHANGED <<packet_loss, num_saved_bits, frame_offset,
                                     pb, gb, res_len>>
    /\ UNCHANGED <<cfg, packet_sequence_number, packet_offset,
                   next_packet_start, skip_frame, parsed_all_subframes,
                   channel, tile>>

\* lines 3146-3149 without the assignment of line 3147
decode_packet_reset_KeepBits ==
    /\ pc = "pkt_reset"
    /\ IF path = "hdr"
       THEN /\ IF packet_loss # 0
               THEN num_saved_bits' = num_saved_bits /\ packet_loss' = 0
               ELSE UNCHANGED <<num_saved_bits, packet_loss>>
            /\ UNCHANGED packet_done
       ELSE /\ packet_done' = IF frame.more_frames = 0 THEN 1 ELSE 0
            /\ UNCHANGED <<num_saved_bits, packet_loss>>
    /\ pc' = "pkt_save"
    /\ UNCHANGED <<cfg, num_calls, path, packet_sequence_number, packet_offset,
                   next_packet_start, frame_offset, buf_bit_size, pgb, gb, pb,
                   res_len, skip_frame, samples, samples_end,
                   parsed_all_subframes, channel, tile, frame, call, ret,
                   data_size>>

\* lines 3146-3149 with the assignment of line 3148 skipped for a loss
\* flagged by the sequence check of lines 3125-3130
decode_packet_reset_KeepLoss ==
    /\ pc = "pkt_reset"
    /\ IF path = "hdr"
       THEN /\ IF packet_loss # 0
               THEN /\ num_saved_bits' = 0
                    /\ packet_loss' = IF call.seq_gap THEN packet_loss ELSE 0
               ELSE UNCHANGED <<num_saved_bits, packet_loss>>
            /\ UNCHANGED packet_done
       ELSE /\ packet_done' = IF frame.more_frames = 0 THEN 1 ELSE 0
            /\ UNCHANGED <<num_saved_bits, packet_loss>>
    /\ pc' = "pkt_save"
    /\ UNCHANGED <<cfg, num_calls, path, packet_sequence_number, packet_offset,
                   next_packet_start, frame_offset, buf_bit_size, pgb, gb, pb,
                   res_len, skip_frame, samples, samples_end,
                   parsed_all_subframes, channel, tile, frame, call, ret,
                   data_size>>

\* decode_frame has returned, or was not called on the header path:
\* lines 3146-3149 on the header path, the assignment of packet_done at
\* lines 3161 and 3172 on the other
decode_packet_reset ==
    /\ pc = "pkt_reset"
    /\ IF path = "hdr"
       THEN /\ IF packet_loss # 0
               THEN num_saved_bits' = 0 /\ packet_loss' = 0
               ELSE UNCHANGED <<num_saved_bits, packet_loss>>
            /\ UNCHANGED packet_done
       ELSE /\ packet_done' = IF frame.more_frames = 0 THEN 1 ELSE 0
            /\ UNCHANGED <<num_saved_bits, packet_loss>>
    /\ pc' = "pkt_save"
    /\ UNCHANGED <<cfg, num_calls, path, packet_sequence_number, packet_offset,
                   next_packet_start, frame_offset, buf_bit_size, pgb, gb, pb,
                   res_len, skip_frame, samples, samples_end,
                   parsed_all_subframes, channel, tile, frame, call, ret,
                   data_size>>

\* lines 3178-3186: the rest of the packet is saved and the call returns
decode_packet_return ==
    /\ pc = "pkt_save"
    /\ \E sv \in {IF packet_done # 0 /\ packet_loss = 0 /\ buf_bit_size - pgb > 0
                   THEN save_bits(buf_bit_size - pgb, 0, packet_loss, num_saved_bits,
                                  frame_offset, pb, pgb, gb, res_len,
                                  IF frame.called THEN 0 - 1 ELSE call.peek)
                   ELSE [ packet_loss |-> packet_loss,
                          num_saved_bits |-> num_saved_bits,
                          frame_offset |-> frame_offset, pb |-> pb, pgb |-> pgb,
                          gb |-> gb, res_len |-> res_len ]} :
          /\ packet_loss' = sv.packet_loss
          /\ num_saved_bits' = sv.num_saved_bits
          /\ frame_offset' = sv.frame_offset
          /\ pb' = sv.pb
          /\ pgb' = sv.pgb
          /\ gb' = sv.gb
          /\ res_len' = sv.res_len
          /\ data_size' = samples * 2
          /\ packet_offset' = sv.pgb % 8
          /\ ret' = IF sv.packet_loss # 0 THEN WMAPRO_ERR_InvalidData
                    ELSE Shr(sv.pgb, 3)
    /\ pc' = "returned"
    /\ UNCHANGED <<cfg, num_calls, path, packet_done, packet_sequence_number,
                   next_packet_start, buf_bit_size, skip_frame, samples,
                   samples_end, parsed_all_subframes, channel, tile, frame,
                   call>>

\* the call has returned: the caller has its results.  samples, samples_end
\* and *data_size are written at lines 3103-3105 of the next call before
\* they are read, so they take their entry values here.
decode_packet_done ==
    /\ pc = "returned"
    /\ pc' = "idle"
    /\ path' = "none"
    /\ call' = NoCall
    /\ frame' = NoFrame
    /\ ret' = 0
    /\ data_size' = 0
    /\ samples' = 0
    /\ samples_end' = 0
    /\ pgb' = 0
    /\ buf_bit_size' = 0
    /\ UNCHANGED <<cfg, num_calls, packet_done, packet_loss, packet_sequence_number,
                   packet_offset, next_packet_start, num_saved_bits,
                   frame_offset, gb, pb, res_len,
                   skip_frame, parsed_all_subframes, channel, tile>>

(********************************* flush ***********************************)
\* flush without the assignment of line 3206
flush_NoLoss ==
    /\ pc = "idle"
    /\ channel' = [c \in Chans |-> [channel[c] EXCEPT !.tail = "zero"]]
    /\ call' = [call EXCEPT !.flushed = TRUE]
    /\ UNCHANGED <<cfg, num_calls, pc, path, packet_done, packet_sequence_number,
                   packet_offset, next_packet_start, num_saved_bits,
                   frame_offset, buf_bit_size, pgb, gb, pb, res_len,
                   skip_frame, samples, samples_end, parsed_all_subframes,
                   tile, frame, ret, data_size, packet_loss>>

\* flush without the memsets of lines 3199-3205
flush_NoClear ==
    /\ pc = "idle"
    /\ packet_loss' = 1
    /\ call' = [call EXCEPT !.flushed = TRUE]
    /\ UNCHANGED <<cfg, num_calls, pc, path, packet_done, packet_sequence_number,
                   packet_offset, next_packet_start, num_saved_bits,
                   frame_offset, buf_bit_size, pgb, gb, pb, res_len,
                   skip_frame, samples, samples_end, parsed_all_subframes,
                   channel, tile, frame, ret, data_size>>

\* lines 3193-3207: the first samples_per_frame samples of every channel's
\* output buffers are zeroed, which covers the overlap history
flush ==
    /\ pc = "idle"
    /\ channel' = [c \in Chans |-> [channel[c] EXCEPT !.tail = "zero"]]
    /\ packet_loss' = 1
    /\ call' = [call EXCEPT !.flushed = TRUE]
    /\ UNCHANGED <<cfg, num_calls, pc, path, packet_done, packet_sequence_number,
                   packet_offset, next_packet_start, num_saved_bits,
                   frame_offset, buf_bit_size, pgb, gb, pb, res_len,
                   skip_frame, samples, samples_end, parsed_all_subframes,
                   tile, frame, ret, data_size>>

(*********************** packet-level specification ************************)
\* streams: 512-sample frames, with and without length prefix, one or two
\* subframes per frame, with and without DRC
SampleRates == {16000}
DecodeFlags == {0, 64}
BlockAligns == {4}

Init ==
    \E sr \in SampleRates, fl \in DecodeFlags, n \in 1 .. MaxChannels,
       ba \in BlockAligns :
        /\ InitCtx(decode_init(sr, fl, n, ba, 16, 0))
        /\ pc = "idle"
        /\ path = "none"
        /\ samples_end = 0

Next ==
    \/ decode_packet_header
    \/ decode_packet_continue
    \/ decode_frame_begin
    \/ decode_tilehdr_iter
    \/ decode_frame_header
    \/ decode_subframe
    \/ decode_frame_end
    \/ decode_packet_reset
    \/ decode_packet_return
    \/ decode_packet_done
    \/ flush

Spec == Init /\ [][Next]_vars

(************************ tile-header specification ************************)
\* streams whose tile headers are decoded: 2048- and 512-sample frames with
\* up to 1, 2 and 4 subframes per frame
TileSampleRates == {44100}
TileDecodeFlags == {0, 8, 16}

\* decode_frame entered on a freshly initialised decoder with room for a
\* frame in the output buffer
InitTile ==
    \E sr \in TileSampleRates, fl \in TileDecodeFlags,
       n \in 1 .. MaxTileChannels :
        /\ InitCtx(decode_init(sr, fl, n, 4, 16, 0))
        /\ pc = "frame"
        /\ path = "hdr"
        /\ samples_end = n * cfg.samples_per_frame

NextTile == decode_frame_begin \/ decode_tilehdr_iter

SpecTile == InitTile /\ [][NextTile]_vars

(************************** frame specification ****************************)
\* streams whose frames are decoded subframe by subframe: 2048-sample frames
\* with up to 1 and 2 subframes per frame and up to MaxFrameChannels
\* channels, and with up to 4 subframes per frame and up to MaxTileChannels
\* channels
FrameSampleRates == {44100}
FrameDecodeFlags == {0, 8, 16}
FrameStreams ==
    {st \in FrameDecodeFlags \X (1 .. MaxFrameChannels) :
        st[1] = 16 => st[2] <= MaxTileChannels}

\* decode_frame entered by the first decode_packet call that finds a whole
\* frame in the reservoir of a freshly initialised decoder: the packet header
\* has been parsed, the loss flag of decode_init is cleared and the reservoir
\* holds MaxBits bits
InitFrame ==
    \E sr \in FrameSampleRates, st \in FrameStreams :
      \E fl \in {st[1]}, n \in {st[2]} :
        /\ decode_init(sr, fl, n, 4, 16, 0).ok
        /\ cfg = decode_init(sr, fl, n, 4, 16, 0)
        /\ pc = "frame"
        /\ path = "cont"
        /\ packet_done = 0
        /\ packet_loss = 0
        /\ packet_sequence_number = 0
        /\ packet_offset = 0
        /\ next_packet_start = 0
        /\ num_saved_bits = MaxBits
        /\ frame_offset = 0
        /\ buf_bit_size = 0
        /\ pgb = 0
        /\ gb = 0
        /\ pb = MaxBits
        /\ res_len = 0 - 1
        /\ skip_frame = 1
        /\ samples = 0
        /\ samples_end = n * cfg.samples_per_frame
        /\ parsed_all_subframes = 0
        /\ channel = [i \in 0 .. (n - 1) |-> InitChannel(cfg)]
        /\ tile = NoTile
        /\ frame = NoFrame
        /\ call = NoCall
        /\ ret = 0
        /\ data_size = 0
        /\ num_calls = 1

NextFrame ==
    \/ decode_frame_begin
    \/ decode_tilehdr_iter
    \/ decode_frame_header
    \/ decode_subframe
    \/ decode_frame_end

SpecFrame == InitFrame /\ [][NextFrame]_vars

(*************************** init specification ****************************)
\* the stream parameters decode_init is given: sample rates on both sides
\* of every threshold of wmapro_get_frame_len_bits, every value of the low
\* byte of decode_flags, channel counts inside and outside the supported
\* range
InitSampleRates ==
    {8000, 16000, 16001, 22050, 22051, 32000, 44100, 48000, 48001, 96000,
     96001, 192000}
InitDecodeFlags == 0 .. 255
InitChannelCounts == {1, 2, WMAPRO_MAX_CHANNELS, WMAPRO_MAX_CHANNELS + 1}

\* the context before decode_init has run
NoCfg ==
    [ ok |-> FALSE, sample_rate |-> 0, decode_flags |-> 0,
      bits_per_sample |-> 0, block_align |-> 0, log2_frame_size |-> 0,
      len_prefix |-> 0, samples_per_frame |-> 0, max_num_subframes |-> 0,
      max_subframe_len_bit |-> 0, subframe_len_bits |-> 0,
      min_samples_per_subframe |-> 0, dynamic_range_compression |-> 0,
      num_channels |-> 0, lfe_channel |-> 0 ]

InitUninit ==
    /\ cfg = NoCfg
    /\ pc = "uninit"
    /\ path = "none"
    /\ packet_done = 0
    /\ packet_loss = 0
    /\ packet_sequence_number = 0
    /\ packet_offset = 0
    /\ next_packet_start = 0
    /\ num_saved_bits = 0
    /\ frame_offset = 0
    /\ buf_bit_size = 0
    /\ pgb = 0
    /\ gb = 0
    /\ pb = 0
    /\ res_len = 0 - 1
    /\ skip_frame = 0
    /\ samples = 0
    /\ samples_end = 0
    /\ parsed_all_subframes = 0
    /\ channel = <<>>
    /\ tile = NoTile
    /\ frame = NoFrame
    /\ call = NoCall
    /\ ret = 0
    /\ data_size = 0
    /\ num_calls = 0

\* lines 1623-1810: a call of decode_init.  The fields derived before an
\* error return are written even when the call fails.
decode_init_call ==
    /\ pc = "uninit"
    /\ \E sr \in InitSampleRates, fl \in InitDecodeFlags,
          n \in InitChannelCounts :
          \E c \in {decode_init(sr, fl, n, 4, 16, 0)} :
             /\ cfg' = c
             /\ IF c.ok
                THEN /\ pc' = "idle"
                     /\ skip_frame' = 1
                     /\ packet_loss' = 1
                     /\ channel' = [i \in 0 .. (n - 1) |-> InitChannel(c)]
                ELSE /\ pc' = "init_failed"
                     /\ skip_frame' = 1
                     /\ packet_loss' = 1
                     /\ UNCHANGED channel
    /\ UNCHANGED <<num_calls, path, packet_done, packet_sequence_number,
                   packet_offset, next_packet_start, num_saved_bits,
                   frame_offset, buf_bit_size, pgb, gb, pb, res_len, samples,
                   samples_end, parsed_all_subframes, tile, frame, call, ret,
                   data_size>>

SpecInit == InitUninit /\ [][decode_init_call]_vars

(************************* downmix specification ***************************)
\* the values of one sample index in the output buffers of the channels when
\* every subframe of a frame has been decoded: -2^30, -4097, 0, 4096 and 2^30
SampleInputs ==
    {Sample(0 - Pow2(18), 0), Sample(0 - 2, 4095), Sample(0, 0), Sample(1, 0),
     Sample(Pow2(18), 0)}

InitDownmix ==
    \E n \in 1 .. MaxDownmixChannels :
        /\ decode_init(44100, 0, n, 4, 16, 0).ok
        /\ cfg = decode_init(44100, 0, n, 4, 16, 0)
        /\ pc = "downmix"
        /\ path = "cont"
        /\ packet_done = 0
        /\ packet_loss = 0
        /\ packet_sequence_number = 0
        /\ packet_offset = 0
        /\ next_packet_start = 0
        /\ num_saved_bits = MaxBits
        /\ frame_offset = 0
        /\ buf_bit_size = 0
        /\ pgb = 0
        /\ gb = 0
        /\ pb = MaxBits
        /\ res_len = 0 - 1
        /\ skip_frame = 0
        /\ samples = 0
        /\ samples_end = n * cfg.samples_per_frame
        /\ parsed_all_subframes = 1
        /\ channel = [i \in 0 .. (n - 1) |->
                         [InitChannel(cfg) EXCEPT !.tail = "mixed"]]
        /\ tile = NoTile
        /\ \E c \in [0 .. (n - 1) -> SampleInputs] :
              frame = [NoFrame EXCEPT !.fixout32 = c]
        /\ call = NoCall
        /\ ret = 0
        /\ data_size = 0
        /\ num_calls = 1

SpecDownmix == InitDownmix /\ [][downmix]_vars

(************************** band specification *****************************)
\* lines 2325-2331: the factors of layout `src` (the channel's table_idx)
\* resampled to the layout `dst` (s->table_idx); sf[b + 1] is the factor of
\* band b
Resample(dst, src, sf) ==
    [b \in 1 .. num_sfb(dst) |-> sf[sf_offsets(dst, src, b - 1) + 1]]

\* lines 2796-2826: band b and the bands after it write
\* fixtmp[start .. end - 1] with the rescaled coefficients, which are zero
\* where the coefficients are; offs is cur_sfb_offsets
RECURSIVE RescaleLoop(_, _, _, _, _)
RescaleLoop(b, offs, subframe_len, coeffs, tmp) ==
    IF b >= Len(offs) - 1 THEN tmp
    ELSE LET start == offs[b + 1]
             end == IF offs[b + 2] < subframe_len THEN offs[b + 2]
                    ELSE subframe_len
         IN RescaleLoop(b + 1, offs, subframe_len, coeffs,
                        [i \in 0 .. (subframe_len - 1) |->
                            IF start <= i /\ i < end THEN coeffs[i] ELSE tmp[i]])

\* lines 2793-2827: s->fixtmp of a channel c of a block of subframe_len
\* samples before the IMDCT of line 2830: the tail from cutoff on is cleared
\* for the LFE channel, then the bands are rescaled
RescaleBands(c, cutoff, offs, subframe_len, coeffs, tmp) ==
    RescaleLoop(0, offs, subframe_len, coeffs,
                [i \in 0 .. (subframe_len - 1) |->
                    IF c = cfg.lfe_channel /\ i >= cutoff THEN 0 ELSE tmp[i]])

\* the streams and blocks followed: the sample rates, the flags (1, 2, 4 and
\* 8 subframes a frame of 128 or 512 samples), the channel masks with their channel counts (stereo,
\* 2.1 and 5.1) and the factor vectors
BandSampleRates == {16000, 44100}
BandDecodeFlags == {6, 14, 22, 30}
BandLayouts == {<<3, 2>>, <<11, 3>>, <<63, 6>>}
BandFactors == {"ramp", "saw"}
BandFactor(kind, b) == IF kind = "ramp" THEN b ELSE (b * 5) % 7

\* a block of one channel c at the point where decode_scale_factors resamples
\* its factors: the layout of the block is dst and that of the last
\* transmission src; the coefficients of the block are all zero, all nonzero
\* or nonzero below the subwoofer cutoff only, and s->fixtmp holds what the
\* channel before left
InitBands ==
    \E sr \in BandSampleRates, fl \in BandDecodeFlags, lay \in BandLayouts :
      \E cf \in {decode_init(sr, fl, lay[2], 4, 16, lay[1])} :
      \E dst \in 0 .. av_log2(cf.max_num_subframes),
         src \in 0 .. av_log2(cf.max_num_subframes),
         c \in {0, lay[2] - 1}, kind \in BandFactors,
         cz \in {"zero", "full", "low"}, tz \in {0, 1} :
        /\ cf.ok
        /\ cfg = cf
        /\ pc = "resample"
        /\ path = "cont"
        /\ packet_done = 0
        /\ packet_loss = 0
        /\ packet_sequence_number = 0
        /\ packet_offset = 0
        /\ next_packet_start = 0
        /\ num_saved_bits = 0
        /\ frame_offset = 0
        /\ buf_bit_size = 0
        /\ pgb = 0
        /\ gb = 0
        /\ pb = 0
        /\ res_len = 0 - 1
        /\ skip_frame = 0
        /\ samples = 0
        /\ samples_end = 0
        /\ parsed_all_subframes = 0
        /\ channel = [i \in 0 .. (lay[2] - 1) |->
                         [InitChannel(cf) EXCEPT !.table_idx = src,
                                                 !.reuse_sf = 1]]
        /\ tile = NoTile
        /\ LET len == Shr(cf.samples_per_frame, dst)
               cut == (440 * len + 3 * (sr \div 2) - 1) \div sr
               nsrc == Len(SfbLoop(0, <<0>>, Shr(cf.samples_per_frame, src))) - 1
           IN frame = [NoFrame EXCEPT
                          !.blk = [NoBlock EXCEPT !.subframe_len = len,
                                                  !.idx = <<c>>],
                          !.sf_in = [b \in 1 .. nsrc |-> BandFactor(kind, b - 1)],
                          !.fixcoeffs =
                             [i \in 0 .. (len - 1) |->
                                 IF cz = "full" \/ (cz = "low" /\ i < cut)
                                 THEN 1 ELSE 0],
                          !.fixtmp = [i \in 0 .. (len - 1) |-> tz]]
        /\ call = NoCall
        /\ ret = 0
        /\ data_size = 0
        /\ num_calls = 1

\* lines 2325-2331 for the channel of the block
resample ==
    /\ pc = "resample"
    /\ LET c == frame.blk.idx[1]
           table_idx == av_log2(cfg.samples_per_frame \div frame.blk.subframe_len)
       IN frame' = [frame EXCEPT
                       !.sf_out = Resample(table_idx, channel[c].table_idx,
                                           frame.sf_in)]
    /\ pc' = "rescale"
    /\ UNCHANGED <<cfg, num_calls, path, packet_done, packet_loss,
                   packet_sequence_number, packet_offset, next_packet_start,
                   num_saved_bits, frame_offset, buf_bit_size, pgb, gb, pb,
                   res_len, skip_frame, samples, samples_end,
                   parsed_all_subframes, channel, tile, call, ret, data_size>>

\* lines 2788-2829 for the channel of the block, up to the call of the IMDCT
rescale ==
    /\ pc = "rescale"
    /\ LET c == frame.blk.idx[1]
           table_idx == av_log2(cfg.samples_per_frame \div frame.blk.subframe_len)
       IN \E offs \in {sfb_offsets(table_idx)},
             cutoff \in {subwoofer_cutoffs(table_idx)} :
             frame' = [frame EXCEPT
                          !.fixtmp = RescaleBands(c, cutoff, offs,
                                                  frame.blk.subframe_len,
                                                  frame.fixcoeffs, frame.fixtmp)]
    /\ pc' = "imdct"
    /\ UNCHANGED <<cfg, num_calls, path, packet_done, packet_loss,
                   packet_sequence_number, packet_offset, next_packet_start,
                   num_saved_bits, frame_offset, buf_bit_size, pgb, gb, pb,
                   res_len, skip_frame, samples, samples_end,
                   parsed_all_subframes, channel, tile, call, ret, data_size>>

NextBands == resample \/ rescale

SpecBands == InitBands /\ [][NextBands]_vars

(******************************* properties ********************************)
\* C1: when decode_tilehdr has returned success, the subframe lengths of
\* every channel add up to samples_per_frame, whatever bits the frame held.
C1_TileSum ==
    pc = "framehdr" =>
        \A c \in Chans :
            SumLen(channel[c].subframe_len, channel[c].num_subframes)
                = cfg.samples_per_frame

\* a tiling in which the two channels are split differently
C1_Witness ==
    /\ pc = "framehdr"
    /\ cfg.num_channels = 2
    /\ channel[0].num_subframes = 1
    /\ channel[1].num_subframes >= 3

\* C2: the output size a decode_packet call reports is a multiple of
\* 2 * min(num_channels, 2) bytes and at most one frame,
\* samples_per_frame * min(num_channels, 2) * 2 bytes.
C2_OutputSize ==
    pc = "returned" =>
        LET m == IF cfg.num_channels > 2 THEN 2 ELSE cfg.num_channels
        IN /\ data_size >= 0
           /\ data_size % (2 * m) = 0
           /\ data_size <= cfg.samples_per_frame * m * 2

\* a call that returns one stereo frame
C2_Witness ==
    /\ pc = "returned"
    /\ cfg.num_channels = 2
    /\ data_size = cfg.samples_per_frame * 2 * 2

\* C3 as stated: a call on a full-size, in-sequence packet whose frame, if
\* any, decodes without error returns block_align.
C3_AsClaimed ==
    (/\ pc = "returned"
     /\ path = "hdr"
     /\ ~call.seq_gap
     /\ frame.fail = "none"
     /\ ret # WMAPRO_ERR_InvalidData)
        => ret = cfg.block_align

\* C3: a call that parses the header of a full-size packet and returns no
\* error returns the whole bytes read from the packet so far: block_align
\* when the call finishes the packet (packet_done set), fewer otherwise.
C3_HeaderCallBytes ==
    (pc = "returned" /\ path = "hdr" /\ ret # WMAPRO_ERR_InvalidData) =>
        /\ 1 <= ret
        /\ ret <= cfg.block_align
        /\ (ret = cfg.block_align) <=> (packet_done = 1)

\* a header call that decodes the cross-packet frame and leaves the packet
\* unfinished
C3_Witness ==
    /\ pc = "returned"
    /\ path = "hdr"
    /\ frame.called
    /\ frame.fail = "none"
    /\ packet_done = 0
    /\ ret < cfg.block_align

\* C4: a header call always takes over the sequence number it reads; when
\* no loss was flagged on entry and the number is not the successor modulo
\* 16, packet_loss is set, decode_frame is not called, and lines 3146-3149
\* leave num_saved_bits at 0.
C4_SeqGap ==
    /\ path = "hdr" => packet_sequence_number = call.seq
    /\ (path = "hdr" /\ call.seq_gap) =>
          /\ pc \in {"pkt_reset", "pkt_save", "returned"}
          /\ ~frame.called
          /\ pc = "pkt_reset" => packet_loss = 1
          /\ pc = "pkt_save" => num_saved_bits = 0

\* a gap found while the reservoir holds bits of the packet before
C4_Witness ==
    /\ pc = "pkt_reset"
    /\ path = "hdr"
    /\ call.seq_gap
    /\ call.entry_done = 1
    /\ num_saved_bits > 0

\* C5 as stated: a call that finds a sequence gap emits nothing and returns
\* the error value.
C5_AsClaimed ==
    (pc = "returned" /\ call.seq_gap) =>
        /\ data_size = 0
        /\ ret = WMAPRO_ERR_InvalidData

\* C5: a call that finds a sequence gap emits nothing; the loss flag it
\* sets is cleared at lines 3146-3149, and the call returns the bytes read,
\* not the error value.
C5_GapReturn ==
    (pc = "returned" /\ call.seq_gap) =>
        /\ data_size = 0
        /\ packet_loss = 0
        /\ ret = Shr(pgb, 3)
        /\ ret >= 1

\* a call that finds a gap in a packet wholly taken by the previous frame
C5_Witness ==
    /\ pc = "returned"
    /\ call.seq_gap
    /\ packet_done = 1
    /\ ret = cfg.block_align

\* C6 as stated: whatever the state on entry, a call with fewer than
\* block_align bytes returns InvalidData and emits nothing.
C6_AsClaimed ==
    (pc = "returned" /\ call.buf_size < cfg.block_align) =>
        /\ ret = WMAPRO_ERR_InvalidData
        /\ data_size = 0

\* C6: a call made with packet_done or packet_loss set and fewer than
\* block_align bytes returns InvalidData and emits nothing.
C6_ShortAtHeader ==
    (/\ pc = "returned"
     /\ call.buf_size < cfg.block_align
     /\ (call.entry_done # 0 \/ call.entry_loss # 0))
        => /\ ret = WMAPRO_ERR_InvalidData
           /\ data_size = 0

\* a short buffer given after a finished packet, with no loss flagged
C6_Witness ==
    /\ pc = "returned"
    /\ call.buf_size < cfg.block_align
    /\ call.entry_done = 1
    /\ call.entry_loss = 0
    /\ ret = WMAPRO_ERR_InvalidData

\* C7 as stated: whenever decode_packet returns InvalidData, packet_loss is
\* set on return.
C7_AsClaimed ==
    (pc = "returned" /\ ret = WMAPRO_ERR_InvalidData) => packet_loss = 1

\* C8 as stated: when decode_frame finds the output room too small, the
\* call returns InvalidData and no samples.
C8_AsClaimed ==
    (pc = "returned" /\ frame.fail = "room") =>
        /\ ret = WMAPRO_ERR_InvalidData
        /\ data_size = 0

\* C9 as stated: when the length prefix does not match the bits consumed,
\* decode_frame flags packet_loss and the call returns no samples.
C9_AsClaimed ==
    frame.fail = "trailer" =>
        /\ pc = "pkt_reset" => packet_loss = 1
        /\ pc = "returned" => data_size = 0

\* C10 as stated: once decode_coeffs has met the illegal escape, the frame
\* fails in decode_subframe, packet_loss is set and the call outputs no
\* samples.
C10_AsClaimed ==
    frame.coef_err =>
        /\ pc \in {"pkt_reset", "pkt_save", "returned"}
        /\ frame.fail = "subframe"
        /\ pc = "pkt_reset" => packet_loss = 1
        /\ pc = "returned" => data_size = 0

\* C11 as stated: a frame decode that ends with a failure of the tile header
\* or of a subframe leaves the overlap history of every channel as it was
\* when the frame was entered.
C11_AsClaimed ==
    (pc = "pkt_reset" /\ frame.fail \in {"tile", "subframe"}) =>
        \A c \in Chans : channel[c].tail = frame.tail0[c]

\* C12: flush is the only step between two states in which no call is
\* running; after it the overlap history of every channel is zero and
\* packet_loss is set.
C12_Flush ==
    [][(pc = "idle" /\ pc' = "idle") =>
          /\ packet_loss' = 1
          /\ \A c \in Chans : channel'[c].tail = "zero"]_vars

\* flush was called on a decoder that had decoded a frame: the copy at the
\* end of the frame had filled the overlap history of both channels
C12_Witness ==
    /\ pc = "idle"
    /\ skip_frame = 0
    /\ cfg.num_channels = 2
    /\ packet_loss = 1
    /\ packet_done = 0
    /\ \A c \in Chans : channel[c].tail = "zero"

\* C13 as stated: for sample rates up to 96 kHz decode_init derives a
\* samples_per_frame that is a power of two between 512 and 8192.
C13_AsClaimed ==
    (pc \in {"idle", "init_failed"} /\ cfg.sample_rate <= 96000) =>
        /\ cfg.samples_per_frame = Pow2(av_log2(cfg.samples_per_frame))
        /\ 512 <= cfg.samples_per_frame
        /\ cfg.samples_per_frame <= 8192

\* C13: for sample rates up to 96 kHz decode_init derives a
\* samples_per_frame that is a power of two between 128 and 8192; it is
\* below 512 only when bit 2 of decode_flags is set, and above 4096 only
\* when bits 1-2 of decode_flags are 01.
C13_FrameLen ==
    (pc \in {"idle", "init_failed"} /\ cfg.sample_rate <= 96000) =>
        /\ cfg.samples_per_frame = Pow2(av_log2(cfg.samples_per_frame))
        /\ 128 <= cfg.samples_per_frame
        /\ cfg.samples_per_frame <= 8192
        /\ cfg.samples_per_frame < 512 => Field(cfg.decode_flags, 2, 1) = 1
        /\ cfg.samples_per_frame > 4096 => Field(cfg.decode_flags, 1, 2) = 1

\* a 16 kHz stream whose decode_flags shorten the frame by two powers of two
C13_Witness ==
    /\ pc = "idle"
    /\ cfg.sample_rate = 16000
    /\ Field(cfg.decode_flags, 1, 2) = 3
    /\ cfg.samples_per_frame = 128

\* C14 as stated: the shorts written for a sample index are the sums of the
\* downmix table, shifted right by 12 and saturated to 16 bits.
C14_AsClaimed ==
    pc = "frame_end" /\ frame.pcm # <<>> =>
        LET c == frame.fixout32
            n == cfg.num_channels
            sum2(a, b) == a.hi + b.hi + ((a.lo + b.lo) \div 4096)
            sum3(a, b, d) == a.hi + b.hi + d.hi + ((a.lo + b.lo + d.lo) \div 4096)
        IN frame.pcm =
              IF n = 1 THEN <<av_clip_int16(c[0].hi)>>
              ELSE IF n = 2 THEN <<av_clip_int16(c[0].hi), av_clip_int16(c[1].hi)>>
              ELSE IF n = 3 THEN <<av_clip_int16(sum2(c[0], c[2])),
                                   av_clip_int16(sum2(c[1], c[2]))>>
              ELSE IF n = 4 THEN <<av_clip_int16(sum2(c[0], c[2])),
                                   av_clip_int16(sum2(c[1], c[3]))>>
              ELSE <<av_clip_int16(sum3(c[0], c[2], c[3])),
                     av_clip_int16(sum3(c[1], c[2], c[4]))>>

\* C15 as stated: the do-while loop of decode_tilehdr runs at most
\* num_channels * max_num_subframes iterations: when that many have run,
\* decode_tilehdr has returned.
C15_AsClaimed ==
    pc = "tilehdr" => tile.iters < cfg.num_channels * cfg.max_num_subframes

\* C16: in the subframe loop of a frame whose tile header was accepted,
\* every call of decode_subframe has moved at least one channel on by one
\* of its subframes (so the calls made are at most the subframes consumed,
\* which are at most the subframes of the frame), parsed_all_subframes is
\* set exactly when every channel has reached samples_per_frame, and the
\* loop goes on exactly while it is clear.
C16_SubframeLoop ==
    (pc \in {"subframes", "frame_end"} \/ frame.fail = "subframe") =>
        LET consumed(c) ==
                Cardinality({k \in 1 .. channel[c].num_subframes :
                    SumLen(channel[c].subframe_len, k)
                        <= channel[c].decoded_samples})
            RECURSIVE total(_, _)
            total(f(_), c) ==
                IF c >= cfg.num_channels THEN 0 ELSE f(c) + total(f, c + 1)
            subframes(c) == channel[c].num_subframes
        IN /\ frame.sub_calls <= total(consumed, 0)
           /\ total(consumed, 0) <= total(subframes, 0)
           /\ (parsed_all_subframes = 1) <=>
                  (\A c \in Chans :
                      channel[c].decoded_samples = cfg.samples_per_frame)
           /\ pc = "subframes" => parsed_all_subframes = 0
           /\ pc = "frame_end" => parsed_all_subframes = 1

\* a frame of two channels tiled differently whose subframe loop has ended
\* after three calls
C16_Witness ==
    /\ pc = "frame_end"
    /\ cfg.num_channels = 2
    /\ channel[0].num_subframes = 1
    /\ channel[1].num_subframes = 2
    /\ frame.sub_calls = 3

\* C17 as stated: a call of decode_subframe processes the block at the
\* smallest decoded_samples of all channels, and the channels it processes
\* are the largest of the groups of channels that are at that offset and
\* have the same next subframe length.
C17_AsClaimed ==
    [][pc = "subframes" =>
          LET blk == frame'.blk
              procs == {blk.idx[k] : k \in 1 .. Len(blk.idx)}
              next_len(c) == channel[c].subframe_len[channel[c].cur_subframe]
              group(l) == {c \in Chans : channel[c].decoded_samples = blk.offset
                                         /\ next_len(c) = l}
          IN /\ \A c \in Chans : blk.offset <= channel[c].decoded_samples
             /\ \E c \in Chans : blk.offset = channel[c].decoded_samples
             /\ procs = group(blk.subframe_len)
             /\ \A c \in Chans :
                   channel[c].decoded_samples = blk.offset =>
                       Cardinality(group(next_len(c))) <= Cardinality(procs)
      ]_vars

\* C17: a call of decode_subframe processes the block at the smallest
\* decoded_samples of all channels; its length is the next subframe length
\* of the lowest-numbered channel at that offset, and the channels it
\* processes are all the channels at that offset with that next length.
C17_Block ==
    [][pc = "subframes" =>
          LET blk == frame'.blk
              procs == {blk.idx[k] : k \in 1 .. Len(blk.idx)}
              next_len(c) == channel[c].subframe_len[channel[c].cur_subframe]
              at_min == {c \in Chans : channel[c].decoded_samples = blk.offset}
              first == CHOOSE c \in at_min : \A d \in at_min : c <= d
          IN /\ \A c \in Chans : blk.offset <= channel[c].decoded_samples
             /\ at_min # {}
             /\ blk.subframe_len = next_len(first)
             /\ procs = {c \in at_min : next_len(c) = blk.subframe_len}
             /\ first \in procs
             /\ \A c \in procs :
                   channel'[c].decoded_samples = blk.offset + blk.subframe_len
      ]_vars

\* the first call for a frame of three channels has processed channel 0
\* alone, while channels 1 and 2 are at the same offset and share another
\* subframe length
C17_Witness ==
    /\ pc = "subframes"
    /\ cfg.num_channels = 3
    /\ frame.sub_calls = 1
    /\ frame.blk.idx = <<0>>
    /\ channel[1].decoded_samples = 0
    /\ channel[2].decoded_samples = 0
    /\ channel[1].subframe_len[0] = channel[2].subframe_len[0]
    /\ channel[1].subframe_len[0] # channel[0].subframe_len[0]

\* C18: between the calls of decode_subframe for a frame whose tile header
\* was accepted, every channel has decoded the sum of its first cur_subframe
\* subframe lengths, which is subframe_offset[cur_subframe] while subframes
\* are left; a channel that has not reached samples_per_frame, and only such
\* a channel has its subframe_len[cur_subframe] read, has subframes left;
\* and decode_subframe never takes its "broken subframe" return.
C18_SubframeIndex ==
    /\ frame.fail # "broken"
    /\ pc = "subframes" =>
          \A c \in Chans :
             LET ch == channel[c]
             IN /\ ch.cur_subframe <= ch.num_subframes
                /\ ch.decoded_samples = SumLen(ch.subframe_len, ch.cur_subframe)
                /\ ch.cur_subframe < ch.num_subframes =>
                       ch.decoded_samples = ch.subframe_offset[ch.cur_subframe]
                /\ ch.decoded_samples < cfg.samples_per_frame =>
                       ch.cur_subframe < ch.num_subframes

\* the loop is under way in a frame of two channels tiled differently
C18_Witness ==
    /\ pc = "subframes"
    /\ cfg.num_channels = 2
    /\ channel[0].num_subframes >= 3
    /\ channel[0].cur_subframe = 2
    /\ channel[1].cur_subframe = 1
    /\ channel[1].num_subframes = 2

\* C19 as stated: when decode_channel_transform has returned 0 for a block
\* of a stream with more than one channel, the channel groups partition the
\* channels of the block: every channel of the block is in exactly one group
\* and the sizes of the groups add up to channels_for_cur_subframe.
C19_AsClaimed ==
    (frame.blk.transformed /\ cfg.num_channels > 1) =>
        LET g == frame.blk.chgroup
            RECURSIVE sizes(_)
            sizes(k) == IF k > Len(g) THEN 0 ELSE Cardinality(g[k]) + sizes(k + 1)
        IN /\ \A c \in SeqSet(frame.blk.idx) :
                 Cardinality({k \in 1 .. Len(g) : c \in g[k]}) = 1
           /\ sizes(1) = Len(frame.blk.idx)

\* C19: when decode_channel_transform has returned 0 for a block of a stream
\* with more than one channel, there are at most channels_for_cur_subframe
\* groups, they hold channels of the block only, no channel is in two of
\* them and their sizes add up to at most channels_for_cur_subframe; they
\* partition the channels of the block when the block has at most two
\* channels, and then there is one group.
C19_Groups ==
    (frame.blk.transformed /\ cfg.num_channels > 1) =>
        LET g == frame.blk.chgroup
            procs == SeqSet(frame.blk.idx)
            RECURSIVE sizes(_)
            sizes(k) == IF k > Len(g) THEN 0 ELSE Cardinality(g[k]) + sizes(k + 1)
        IN /\ Len(g) <= Len(frame.blk.idx)
           /\ \A k \in 1 .. Len(g) : g[k] \subseteq procs
           /\ \A c \in procs : Cardinality({k \in 1 .. Len(g) : c \in g[k]}) <= 1
           /\ sizes(1) <= Len(frame.blk.idx)
           /\ Len(frame.blk.idx) <= 2 => g = <<procs>>

\* a block of three channels whose channel masks selected no channel:
\* decode_channel_transform returned 0 with three empty groups
C19_Witness ==
    /\ frame.blk.transformed
    /\ Len(frame.blk.idx) = 3
    /\ frame.blk.chgroup = <<{}, {}, {}>>
    /\ frame.fail = "none"
\* C20 as stated: decode_scale_factors passes over every channel of the block
\* whose transmit_coefs flag is 0: when it has returned 0 for a block, such a
\* channel has its scale_factor_idx, table_idx and reuse_sf unchanged and no
\* bit was read for it
C20_AsClaimed ==
    [][(pc = "subframes" /\ frame'.blk.scaled) =>
          LET procs == SeqSet(frame'.blk.idx)
              coded == {c \in procs : channel'[c].transmit_coefs = 1}
          IN /\ \A c \in procs :
                   channel'[c].transmit_coefs = 0 =>
                      /\ channel'[c].scale_factor_idx = channel[c].scale_factor_idx
                      /\ channel'[c].table_idx = channel[c].table_idx
                      /\ channel'[c].reuse_sf = channel[c].reuse_sf
             /\ frame'.blk.sf_bits <= Cardinality(coded) * (1 + SfBits)]_vars

\* C20: decode_scale_factors, called when some channel of the block transmits
\* coefficients, treats every channel of the block alike whatever its
\* transmit_coefs flag: when it has returned 0, a channel of the block in its
\* first subframe has new factors (scale_factor_idx swapped, table_idx the
\* table index of the block, reuse_sf 1), a channel in a later subframe has
\* either these new factors or its three fields unchanged, at least SfBits
\* bits were read for each first-subframe channel and one bit for each other
\* channel, and the channels outside the block are unchanged
C20_ScaleFactors ==
    [][(pc = "subframes" /\ frame'.blk.scaled) =>
          LET procs == SeqSet(frame'.blk.idx)
              first == {c \in procs : channel[c].cur_subframe = 0}
              fresh(c) ==
                 /\ channel'[c].scale_factor_idx = 1 - channel[c].scale_factor_idx
                 /\ channel'[c].table_idx =
                       av_log2(cfg.samples_per_frame \div frame'.blk.subframe_len)
                 /\ channel'[c].reuse_sf = 1
              kept(c) ==
                 /\ channel'[c].scale_factor_idx = channel[c].scale_factor_idx
                 /\ channel'[c].table_idx = channel[c].table_idx
                 /\ channel'[c].reuse_sf = channel[c].reuse_sf
          IN /\ \A c \in first : fresh(c)
             /\ \A c \in procs \ first : fresh(c) \/ kept(c)
             /\ \A c \in Chans \ procs : kept(c)
             /\ frame'.blk.sf_bits >= Cardinality(first) * SfBits
                                      + Cardinality(procs \ first)
             /\ \E c \in procs : channel'[c].transmit_coefs = 1]_vars

\* C20 witness: decode_scale_factors returned 0 for the first block of a
\* channel that transmits no coefficients, and the channel has new factors
C20_Witness ==
    /\ frame.blk.scaled
    /\ frame.blk.offset = 0
    /\ \E c \in SeqSet(frame.blk.idx) :
          /\ channel[c].transmit_coefs = 0
          /\ channel[c].cur_subframe = 1
          /\ channel[c].reuse_sf = 1
          /\ channel[c].scale_factor_idx = 1

\* C21: for every channel with reuse_sf set, the bank
\* saved_scale_factors[scale_factor_idx] holds the factors of the channel's
\* most recent transmission as transmitted, and table_idx is the block-size
\* index they were transmitted under; a call of decode_subframe that leaves
\* scale_factor_idx of a channel as it was (factors only resampled, or a
\* run-level decode failed) leaves that bank and table_idx untouched
C21_Banks ==
    /\ [](\A c \in Chans :
             channel[c].reuse_sf = 1 =>
                LET b == channel[c].saved_scale_factors[channel[c].scale_factor_idx + 1]
                IN /\ b.kind = "tx"
                   /\ b.table = channel[c].table_idx
                   /\ b.gen = channel[c].sf_gen)
    /\ [][pc = "subframes" =>
             \A c \in Chans :
                channel'[c].scale_factor_idx = channel[c].scale_factor_idx =>
                   /\ channel'[c].table_idx = channel[c].table_idx
                   /\ channel'[c].saved_scale_factors[channel[c].scale_factor_idx + 1]
                         = channel[c].saved_scale_factors[channel[c].scale_factor_idx + 1]]_vars

\* C21 witness: a run-level decode of scale factors has failed after a
\* transmission and a resampling: the other bank holds the partly updated
\* factors and the current bank the transmitted ones
C21_Witness ==
    /\ frame.fail = "subframe"
    /\ \E c \in Chans :
          /\ channel[c].reuse_sf = 1
          /\ channel[c].saved_scale_factors[2 - channel[c].scale_factor_idx].kind = "part"
          /\ channel[c].saved_scale_factors[channel[c].scale_factor_idx + 1].kind = "tx"
          /\ channel[c].sf_gen = 2

\* C22 as stated: the scale factors, max_scale_factor and scale_factor_step
\* the inverse quantization of a block uses were transmitted in the current
\* frame or resampled from factors transmitted in the current frame
C22_AsClaimed ==
    \A c \in DOMAIN frame.blk.quant :
       /\ frame.blk.quant[c].sf \in {"tx", "res"}
       /\ frame.blk.quant[c].max \in {"tx", "res"}
       /\ frame.blk.quant[c].step = "tx"

\* C23 as stated: for every channel of a block num_vec_coeffs <= subframe_len,
\* so the vector coded phase of decode_coeffs writes no coefficient at an
\* index outside 0 .. subframe_len - 1
C23_AsClaimed ==
    /\ \A c \in SeqSet(frame.blk.idx) :
          frame.blk.scaled => channel[c].num_vec_coeffs <= frame.blk.subframe_len
    /\ frame.blk.vec_end <= frame.blk.subframe_len

\* C24 as stated: after a successful init samples_per_frame <= 4096 and
\* min_samples_per_subframe >= 64, so every subframe length
\* decode_subframe_length accepts is 2^k with 6 <= k <= 12, the table index
\* av_log2(len) - 6 lies in 0 .. 6, and the block region that starts at
\* samples_per_frame/2 + offset ends inside the buffer of 1.5 * 4096 entries
C24_AsClaimed ==
    pc = "idle" =>
       /\ cfg.samples_per_frame <= WMAPRO_BLOCK_MAX_SIZE
       /\ cfg.min_samples_per_subframe >= Pow2(WMAPRO_BLOCK_MIN_BITS)
       /\ \A sl \in decode_subframe_length(0) :
             sl.len >= 0 =>
                /\ sl.len = Pow2(av_log2(sl.len))
                /\ av_log2(sl.len) - WMAPRO_BLOCK_MIN_BITS \in
                      0 .. (WMAPRO_BLOCK_MAX_BITS - WMAPRO_BLOCK_MIN_BITS)
                /\ (cfg.samples_per_frame \div 2) + sl.len
                      <= WMAPRO_BLOCK_MAX_SIZE + (WMAPRO_BLOCK_MAX_SIZE \div 2)

\* C25: a call of decode_subframe that windows a block of length L uses for
\* every channel of the block the window length min(L, prev_block_len of the
\* channel) and leaves prev_block_len = L for the channels of the block and
\* as it was for the others; no other step of decode_frame changes
\* prev_block_len, which is samples_per_frame until the first block after
\* init is windowed
C25_PrevBlockLen ==
    /\ [](frame.sub_calls = 0 /\ pc \in {"frame", "tilehdr", "framehdr", "subframes"}
             => \A c \in Chans : channel[c].prev_block_len = cfg.samples_per_frame)
    /\ [][LET blk == frame'.blk
              procs == DOMAIN blk.winlen
          IN IF pc = "subframes"
             THEN \A c \in Chans :
                     IF c \in procs
                     THEN /\ c \in SeqSet(blk.idx)
                          /\ channel'[c].prev_block_len = blk.subframe_len
                          /\ blk.winlen[c] =
                                (IF blk.subframe_len < channel[c].prev_block_len
                                 THEN blk.subframe_len
                                 ELSE channel[c].prev_block_len)
                     ELSE channel'[c].prev_block_len = channel[c].prev_block_len
             ELSE \A c \in Chans :
                     channel'[c].prev_block_len = channel[c].prev_block_len]_vars

\* C25 witness: a block shorter than the one before it has been windowed
\* with its own length, next to a channel outside the block that keeps the
\* length of the frame
C25_Witness ==
    /\ frame.blk.offset > 0
    /\ DOMAIN frame.blk.winlen # {}
    /\ \E c \in DOMAIN frame.blk.winlen, d \in Chans \ DOMAIN frame.blk.winlen :
          /\ frame.blk.winlen[c] = frame.blk.subframe_len
          /\ frame.blk.subframe_len < cfg.samples_per_frame
          /\ channel[c].prev_block_len = frame.blk.subframe_len
          /\ channel[d].prev_block_len = cfg.samples_per_frame

\* C26 as stated: for the LFE channel the input handed to the IMDCT of a
\* block is zero at every index from subwoofer_cutoffs[table_idx] to
\* subframe_len - 1
C26_AsClaimed ==
    (pc = "imdct" /\ frame.blk.idx[1] = cfg.lfe_channel) =>
        \A i \in 0 .. (frame.blk.subframe_len - 1) :
           i >= subwoofer_cutoffs(av_log2(cfg.samples_per_frame
                                          \div frame.blk.subframe_len))
              => frame.fixtmp[i] = 0

\* C30: for every block-size index i built by init and every band
\* b < num_sfb[i], sf_offsets[i][i][b] = b, and the resampling of a factor
\* vector from a layout into the same layout gives the vector back
C30_ResampleIdentity ==
    /\ pc = "resample" =>
          \A i \in BlockSizes :
             \A b \in 0 .. (num_sfb(i) - 1) : sf_offsets(i, i, b) = b
    /\ pc \in {"rescale", "imdct"} =>
          LET c == frame.blk.idx[1]
              table_idx == av_log2(cfg.samples_per_frame
                                   \div frame.blk.subframe_len)
          IN channel[c].table_idx = table_idx => frame.sf_out = frame.sf_in

\* C30 witness: a vector of at least four factors that are not all alike has
\* been resampled into its own layout, in a stream with more than one layout
C30_Witness ==
    /\ pc = "rescale"
    /\ cfg.max_num_subframes > 1
    /\ channel[frame.blk.idx[1]].table_idx =
          av_log2(cfg.samples_per_frame \div frame.blk.subframe_len)
    /\ channel[frame.blk.idx[1]].table_idx > 0
    /\ Len(frame.sf_in) >= 4
    /\ frame.sf_in[1] # frame.sf_in[2]
    /\ frame.sf_out = frame.sf_in

\* C27 as stated: whenever decode_frame is invoked, the number of bits put
\* into frame_data since it was last re-initialised equals num_saved_bits
C27_AsClaimed ==
    pc = "frame" => pb = num_saved_bits

\* C28: in the first decode_packet call after flush, when the packet has at
\* least block_align bytes, the header-parsing path is taken and decode_frame
\* is not run; lines 3146-3149 leave num_saved_bits at 0 and packet_loss
\* clear, and the call reports zero output bytes
C28_AfterFlush ==
    (pc # "idle" /\ call.flushed /\ ~ShortPacket(call.buf_size)) =>
        /\ path = "hdr"
        /\ call.entry_loss = 1
        /\ ~frame.called
        /\ pc \in {"pkt_reset", "pkt_save", "returned"}
        /\ data_size = 0
        /\ pc \in {"pkt_save", "returned"} => num_saved_bits = 0 /\ packet_loss = 0

\* C28 witness: a call after flush is at line 3146; the flush came in the
\* middle of the stream, when bits of an unfinished frame were in the
\* reservoir, and the packet has added more bits of that frame to them
C28_Witness ==
    /\ pc = "pkt_reset"
    /\ call.flushed
    /\ ~ShortPacket(call.buf_size)
    /\ call.entry_done = 1
    /\ pgb > 12
    /\ num_saved_bits > pgb - 12
    /\ packet_loss = 1
    /\ ~frame.called

\* C29: skip_frame is 1 after decode_init and changes only at the end of a
\* frame whose subframes were all decoded, where it becomes 0, so flush
\* does not re-arm it; the frame that clears it leaves the output pointer
\* where it was, and every completed frame that finds it clear advances the
\* output pointer by samples_per_frame * min(num_channels, 2) samples
C29_SkipFirstFrame ==
    /\ []((num_calls = 0 /\ pc = "idle") => skip_frame = 1)
    /\ [][(skip_frame' # skip_frame) => (pc = "frame_end" /\ skip_frame = 1)]_vars
    /\ [][(pc = "frame_end" /\ pc' # "frame_end") =>
             /\ skip_frame' = 0
             /\ skip_frame = 1 => samples' = samples
             /\ skip_frame = 0 =>
                   samples' = samples + cfg.samples_per_frame *
                        (IF cfg.num_channels < 2 THEN cfg.num_channels ELSE 2)]_vars

\* C29 witness: in a two-channel stream a frame that found skip_frame clear,
\* hence a frame after the first completed one, has just ended and advanced
\* the output pointer of its call by two channels of samples
C29_Witness ==
    /\ pc = "pkt_reset"
    /\ frame.called
    /\ frame.fail = "none"
    /\ cfg.num_channels = 2
    /\ call.entry_loss = 0
    /\ skip_frame = 0
    /\ samples = 2 * cfg.samples_per_frame

====
